---------------------------- MODULE Spec2Model ----------------------------
(***************************************************************************)
(* A model of the Toptica laser and R&S microwave modules of qudi:         *)
(*   hardware/laser/toptica_laser.py   (TopticaLaser, the device facade)   *)
(*   logic/Toptica_laser_logic.py      (TopticaLaserLogic, the poll loop)  *)
(*   hardware/microwave/mw_source_sgs.py (MicrowaveRSSGS)                  *)
(*   gui/laser/Topticalaser.py         (TopticaLaserGUI, advanced features) *)
(*                                                                         *)
(* Text is a sequence of one-character strings.  Python indices are        *)
(* 0-based; the operators Py... keep Python's conventions (find returns    *)
(* -1, a negative slice bound counts from the end).                        *)
(*                                                                         *)
(* The specifications share the variables:                                 *)
(*   SpecParse     _getValue applied to every text up to MaxLen characters *)
(*   SpecFacade    calls on one TopticaLaser instance, one after the other *)
(*   SpecCommands  setters and queries of a connected TopticaLaser         *)
(*   SpecMicrowave calls on one MicrowaveRSSGS instance                    *)
(*   Spec          the logic's event loop: timer, queued slots, passes     *)
(*   SpecRing      the poll passes alone, long enough to fill the buffers  *)
(*   SpecPublish   poll passes with the laser switched between them        *)
(*   SpecSerial    the event loop with a pass taken write by write         *)
(*   FairSpec      Spec with the logic's thread running on                 *)
(*   SpecRead      one _get_terminal_string call, chunk by chunk           *)
(*   SpecGui       the advanced-feature widgets of TopticaLaserGUI         *)
(*   SpecSweep     one MicrowaveRSSGS.set_sweep call, iteration by iteration *)
(***************************************************************************)
EXTENDS Integers, Sequences, FiniteSets, TLC

VARIABLES
    \* ---- _getValue on its own (SpecParse)
    terminalString,   \* the argument of the last _getValue call
    val,              \* what that call returned
    \* ---- TopticaLaser (SpecFacade, and used by Spec)
    ser,              \* serial.Serial: [is_open, port]
    handles,          \* the ports the instance's Serial objects hold open
    devLaser,         \* the device's emission state, "ON" or "OFF"
    sent,             \* the lines the last operation wrote to ser
    ret,              \* the outcome of the last facade operation
    serialReply,      \* the decoded reply _checkIfToptica looked at
    inbuf,            \* the commands whose responses wait unread in the port
    \* ---- TopticaLaserLogic (Spec)
    stopRequest,      \* self.stopRequest
    module_state,     \* self.module_state: "idle" or "running"
    queryTimer,       \* self.queryTimer: [active, interval]
    queue,            \* queued slot invocations posted to the logic's thread
    stack,            \* handlers the logic thread is inside (innermost last)
    data,             \* self.data: buffer name -> sequence of bufferLength values
    pub,              \* laser_state, laser_power, laser_temps, ... as published
    now,              \* time.time(), in ticks
    hist,             \* history: the samples of the successful passes, in order
    consec,           \* history: successful passes since the last failed one
    lastCall,         \* what the last check_laser_loop did, and start/stop since
    posts,            \* slot invocations posted so far (bounded by MaxPosts)
    maxTime,          \* the tick after which the model's timer stays silent
    mw,               \* the MicrowaveRSSGS object and what its last call returned
    rd,               \* one call of _get_terminal_string, chunk by chunk
    gui,              \* TopticaLaserGUI: the advanced-feature widgets and signals
    swp               \* one call of MicrowaveRSSGS.set_sweep, step by step

parseVars  == <<terminalString, val>>
facadeVars == <<ser, handles, devLaser, sent, ret, serialReply, inbuf>>
logicVars  == <<stopRequest, module_state, queryTimer, queue, stack, data, pub,
                now, hist, consec, lastCall, posts, maxTime>>
auxVars == <<mw, rd, gui, swp>>
vars == <<parseVars, facadeVars, logicVars, auxVars>>

-----------------------------------------------------------------------------
(* Bounds of the model *)

MaxLen == 6        \* longest text handed to _getValue in SpecParse
BufLen == 3        \* length of the ring buffers (the code's 100, scaled down)
ExtraPasses == 2   \* timer expirations beyond BufLen in SpecRing
LoopPasses == 2    \* timer expirations in Spec
MaxPosts == 2      \* slot invocations other threads post to the logic
MaxSweep == 2      \* frequencies in the list set_sweep builds
MaxUnread == 2     \* responses that wait unread in the serial port
ChunkSize == 2     \* chunk_size of _get_terminal_string, scaled down
MaxConnections == 2 \* slots connected to sigFineA, and to sigFineB
MaxFine == 1       \* the largest value of FINE A and FINE B
MaxFreq == 3       \* the largest start and stop frequency of set_sweep

(* Program constants *)

queryInterval == 100       \* ConfigOption('query_interval', 100)
ThrottledInterval == 3000  \* qi = 3000 in the except branch
StopIterations == 10       \* for i in range(10) in stop_query_loop
NotAvailable == 404        \* val = 404 in _getValue
SuffixLen == 5             \* read_buffer[0:len(read_buffer)-5]

\* self.bufferLength = 100, at the scale of the model
bufferLength == BufLen

-----------------------------------------------------------------------------
(* Python's str operations *)

Min(S) == CHOOSE x \in S : \A y \in S : x <= y

\* s.find(ch, start, len(s)) for a one-character ch
PyFind(s, ch, start) ==
    LET hits == {i \in start..(Len(s) - 1) : i >= 0 /\ s[i + 1] = ch}
    IN  IF hits = {} THEN -1 ELSE Min(hits)

\* s[a:b]
PySlice(s, a, b) ==
    LET n == Len(s)
        norm(x) == IF x < 0 THEN (IF x + n < 0 THEN 0 ELSE x + n)
                   ELSE (IF x > n THEN n ELSE x)
        lo == norm(a)
        hi == norm(b)
    IN  [k \in 1..(IF hi > lo THEN hi - lo ELSE 0) |-> s[lo + k]]

\* sub in s
PyContains(s, sub) ==
    \E i \in 0..(Len(s) - Len(sub)) :
        \A k \in 1..Len(sub) : s[i + k] = sub[k]

Digits == {"0", "1", "2", "3", "4", "5", "6", "7", "8", "9"}

DigitVal(c) ==
    CASE c = "0" -> 0 [] c = "1" -> 1 [] c = "2" -> 2 [] c = "3" -> 3
      [] c = "4" -> 4 [] c = "5" -> 5 [] c = "6" -> 6 [] c = "7" -> 7
      [] c = "8" -> 8 [] c = "9" -> 9

RECURSIVE DecimalVal(_)
DecimalVal(s) ==
    IF s = <<>> THEN 0
    ELSE 10 * DecimalVal(SubSeq(s, 1, Len(s) - 1)) + DigitVal(s[Len(s)])

\* A Python float as numerator and denominator
Float(n, d) == [num |-> n, den |-> d]

DigitChar(d) == CHOOSE c \in Digits : DigitVal(c) = d

\* str(n) of an int n >= 0
RECURSIVE PyStrInt(_)
PyStrInt(n) ==
    IF n < 10 THEN <<DigitChar(n)>>
    ELSE PyStrInt(n \div 10) \o <<DigitChar(n % 10)>>

RECURSIVE StripZeros(_)
StripZeros(s) ==
    IF s # <<>> /\ s[Len(s)] = "0" THEN StripZeros(SubSeq(s, 1, Len(s) - 1))
    ELSE s

\* str(n / d) of the float n / d, n an int >= 0 and d = 10^e: the shortest
\* digits that give the float back, with an exponent when the first digit
\* is beyond the fourth decimal place or the sixteenth integer place
PyStrQuotient(n, e) ==
    IF n = 0 THEN <<"0", ".", "0">>
    ELSE LET all == PyStrInt(n)
             digits == StripZeros(all)
             len == Len(digits)
             decpt == Len(all) - e
             x == decpt - 1
             absx == IF x < 0 THEN 0 - x ELSE x
         IN  IF decpt > -4 /\ decpt <= 16
             THEN IF decpt <= 0
                  THEN <<"0", ".">> \o [k \in 1..(0 - decpt) |-> "0"] \o digits
                  ELSE IF decpt >= len
                  THEN digits \o [k \in 1..(decpt - len) |-> "0"] \o <<".", "0">>
                  ELSE SubSeq(digits, 1, decpt) \o <<".">>
                       \o SubSeq(digits, decpt + 1, len)
             ELSE (IF len = 1 THEN digits
                   ELSE <<digits[1], ".">> \o SubSeq(digits, 2, len))
                  \o <<"e", IF x < 0 THEN "-" ELSE "+">>
                  \o (IF absx < 10 THEN <<"0">> ELSE <<>>) \o PyStrInt(absx)

-----------------------------------------------------------------------------
(* TopticaLaser: the parser *)

\* What _getValue returns: a str, or the int 404
StrVal(s) == [isStr |-> TRUE, s |-> s, n |-> 0]
IntVal(n) == [isStr |-> FALSE, s |-> <<>>, n |-> n]

getValue(s) ==
    IF PyContains(s, <<"=">>)
    THEN LET start_num == PyFind(s, "=", 0)
             end_num == PyFind(s, " ", start_num + 2)
         IN  StrVal(PySlice(s, start_num + 2, end_num))
    ELSE IntVal(NotAvailable)

\* float(v): [exc, f]
PyFloat(v) ==
    IF ~v.isStr THEN [exc |-> "none", f |-> Float(v.n, 1)]
    ELSE IF v.s # <<>> /\ \A k \in 1..Len(v.s) : v.s[k] \in Digits
         THEN [exc |-> "none", f |-> Float(DecimalVal(v.s), 1)]
         ELSE [exc |-> "ValueError", f |-> Float(0, 1)]

-----------------------------------------------------------------------------
(* TopticaLaser: the serial line *)

\* One ser.write: the command text and whether b'\r\n' ends it
Line(text, crlf) == [text |-> text, crlf |-> crlf]

\* 1e6 = 10^MicroDigits, the microseconds in a second
MicroDigits == 6

\* A byte that is not valid UTF-8
BadByte == "<ff>"

\* The control sequence the device ends every reply with
Suffix == <<"\r", "\n", "C", "M", "D">>

\* What the serial line does for one command: io = "fail" when ser.write
\* raises SerialException, otherwise raw is what ser.read delivers
Reply(raw) == [io |-> "ok", raw |-> raw]
IoFail == [io |-> "fail", raw |-> <<>>]

\* No call of _get_terminal_string is under way
NotReading ==
    [pc |-> "idle", resp |-> <<>>, rest |-> <<>>, buf |-> <<>>, reads |-> 0,
     out |-> [exc |-> "none", s |-> <<>>]]

\* TopticaLaserGUI.on_activate: the combo box shows its first entry, the fine
\* box is unchecked, and sigFineA, sigFineB are connected to nothing.
\* param: setParamAF.currentIndex(); checked: fineCheckBox.isChecked();
\* conn: the connections of sigFineA and sigFineB to set_Fine_A, set_Fine_B;
\* enabled: the FINE spin boxes and sliders take input;
\* spin, slider: the values of setValueFine*, horizontalSliderFine*;
\* ev, exc, req, calls: the last event handled, the exception its handler
\* raised, the AdvancedFeatureSelect it emitted, and the set_Fine_A,
\* set_Fine_B calls it brought about on the logic
GuiActivated ==
    [param |-> 0, checked |-> FALSE, conn |-> 0, enabled |-> TRUE,
     spin |-> [A |-> 0, B |-> 0], slider |-> [A |-> 0, B |-> 0],
     ev |-> "none", exc |-> "none", req |-> "none", calls |-> <<>>]

\* No call of set_sweep is under way
NotSweeping ==
    [pc |-> "idle", start |-> 0, stop |-> 0, step |-> 0, sweep_freq |-> 0,
     sweep_list |-> <<>>, beyond |-> 0, val |-> "None"]

\* Reading on until a chunk is empty
chunk_ends_empty(byte_chunk) == Len(byte_chunk) = 0

\* if not len(byte_chunk) == chunk_size: break
chunk_ends(byte_chunk) == Len(byte_chunk) # ChunkSize

\* _get_terminal_string: [exc, s]
get_terminal_string(raw) ==
    IF \E k \in 1..Len(raw) : raw[k] = BadByte
    THEN [exc |-> "UnicodeDecodeError", s |-> <<>>]
    ELSE [exc |-> "none", s |-> PySlice(raw, 0, Len(raw) - SuffixLen)]

\* self.ser.write(line) then self._get_terminal_string(): [sent, exc, s]
write_read(line, reply) ==
    IF reply.io = "fail"
    THEN [sent |-> <<>>, exc |-> "SerialException", s |-> <<>>]
    ELSE LET t == get_terminal_string(reply.raw)
         IN  [sent |-> <<line>>, exc |-> t.exc, s |-> t.s]

\* ser.read() until a chunk comes short takes everything that waits in the
\* port: what waits after an operation that wrote the lines sent
ReadAll(buf, lines) == IF lines = <<>> THEN buf ELSE <<>>

\* _communicate(message)
communicate(message, reply) == write_read(Line(message, TRUE), reply)

\* The device acts on complete lines: what was written since the last
\* b'\r\n' is one command
RECURSIVE DeviceAfter(_, _, _)
DeviceAfter(dev, partial, lines) ==
    IF lines = <<>> THEN dev
    ELSE LET cmd == partial \o <<lines[1].text>>
         IN  IF ~lines[1].crlf THEN DeviceAfter(dev, cmd, Tail(lines))
             ELSE DeviceAfter(
                    IF cmd = <<"la on">> THEN "ON"
                    ELSE IF cmd = <<"la off">> THEN "OFF" ELSE dev,
                    <<>>, Tail(lines))

-----------------------------------------------------------------------------
(* TopticaLaser: the operations.  Each returns [sent, exc, val]; exc is the *)
(* exception that leaves the call, "none" when it returns.                  *)

\* ret.startswith('iBEAM') in place of 'iBEAM' in ret
checkIfToptica_prefix(reply) ==
    LET c == communicate("serial", reply)
    IN  [sent |-> c.sent, exc |-> c.exc, s |-> c.s,
         val |-> IF c.exc = "none"
                    /\ PySlice(c.s, 0, 5) = <<"i", "B", "E", "A", "M">>
                 THEN "True" ELSE "False"]

_checkIfToptica(reply) ==
    LET c == communicate("serial", reply)
    IN  [sent |-> c.sent, exc |-> c.exc, s |-> c.s,
         val |-> IF c.exc = "none" /\ PyContains(c.s, <<"i", "B", "E", "A", "M">>)
                 THEN "True" ELSE "False"]

get_laser_state(reply) ==
    LET c == communicate("sta la", reply)
    IN  [sent |-> c.sent, exc |-> c.exc,
         val |-> IF c.exc # "none" THEN "None"
                 ELSE IF PyContains(c.s, <<"O", "N">>) THEN "ON"
                 ELSE IF PyContains(c.s, <<"O", "F", "F">>) THEN "OFF"
                 ELSE "UNKNOWN"]

set_laser_state(status, wr, reply) ==
    IF status \in {"ON", "OFF"} /\ wr = "fail"
    THEN [sent |-> <<>>, exc |-> "SerialException", val |-> "None"]
    ELSE LET first == IF status = "ON" THEN <<Line("la on", FALSE)>>
                      ELSE IF status = "OFF" THEN <<Line("la off", FALSE)>>
                      ELSE <<>>
             g == get_laser_state(reply)
         IN  [sent |-> first \o g.sent, exc |-> g.exc, val |-> g.val]

on(reply) ==
    LET c == communicate("la on", reply)
    IN  [sent |-> c.sent, exc |-> c.exc, val |-> "str"]

off(reply) ==
    LET c == communicate("la off", reply)
    IN  [sent |-> c.sent, exc |-> c.exc, val |-> "str"]

\* set_power_ch1, set_power_ch2: self.ser.write(b'ch N power ' + str(power)
\* + b'\r\n') and nothing is read; power is in thousandths of a milliwatt.
\* [sent, exc, unread]: unread holds the commands left without a read
set_power_ch(ch, power, io) ==
    IF io = "fail" THEN [sent |-> <<>>, exc |-> "SerialException", unread |-> <<>>]
    ELSE LET word == IF ch = 1 THEN "ch 1 power " ELSE "ch 2 power "
         IN  [sent |-> <<Line(<<word>> \o PyStrQuotient(power, 3), TRUE)>>,
              exc |-> "none", unread |-> <<word>>]

\* per = per/1000.0
set_autopulse_per_millis(per, reply) ==
    LET c == communicate(<<"puls period ">> \o PyStrQuotient(per, MicroDigits - 3),
                         reply)
    IN  [sent |-> c.sent, exc |-> c.exc, val |-> "str"]

\* per = per/1e6; self._communicate('puls period ' + str(per))
set_autopulse_per(per, reply) ==
    LET c == communicate(<<"puls period ">> \o PyStrQuotient(per, MicroDigits),
                         reply)
    IN  [sent |-> c.sent, exc |-> c.exc, val |-> "str"]

set_autopulse_width(width, reply) ==
    LET c == communicate(<<"puls width ">> \o PyStrQuotient(width, MicroDigits),
                         reply)
    IN  [sent |-> c.sent, exc |-> c.exc, val |-> "str"]

\* get_current_unit, get_current_range, get_current_setpoint, set_current:
\* self.log.warning(...) and return -1
ReturnMinusOne ==
    {"get_current_unit", "get_current_range", "get_current_setpoint",
     "set_current"}

\* get_shutter_state, set_shutter_state, set_temperatures,
\* get_temperature_setpoints: self.log.warning(...) and no return statement
WarnOnly ==
    {"get_shutter_state", "set_shutter_state", "set_temperatures",
     "get_temperature_setpoints"}

\* An operation the model does not support: [sent, exc, val]
unsupported(op) ==
    [sent |-> <<>>, exc |-> "none",
     val |-> IF op \in ReturnMinusOne THEN "-1" ELSE "None"]

\* [sent, exc, f]: the power in milliwatts
get_power(reply) ==
    LET c == communicate("sh pow", reply)
        f == PyFloat(getValue(c.s))
    IN  IF c.exc # "none" THEN [sent |-> c.sent, exc |-> c.exc, f |-> Float(0, 1)]
        ELSE [sent |-> c.sent, exc |-> f.exc, f |-> Float(f.f.num, f.f.den * 1000)]

\* [sent, exc, sys, ld]
get_temperatures(reply1, reply2) ==
    LET c1 == write_read(Line("sh temp sys", TRUE), reply1)
        f1 == PyFloat(getValue(c1.s))
        c2 == write_read(Line("sh temp", TRUE), reply2)
        f2 == PyFloat(getValue(c2.s))
        none == Float(0, 1)
    IN  IF c1.exc # "none"
        THEN [sent |-> c1.sent, exc |-> c1.exc, sys |-> none, ld |-> none]
        ELSE IF f1.exc # "none"
        THEN [sent |-> c1.sent, exc |-> f1.exc, sys |-> none, ld |-> none]
        ELSE IF c2.exc # "none"
        THEN [sent |-> c1.sent \o c2.sent, exc |-> c2.exc, sys |-> none, ld |-> none]
        ELSE [sent |-> c1.sent \o c2.sent, exc |-> f2.exc, sys |-> f1.f,
              ld |-> IF f2.exc = "none" THEN f2.f ELSE none]

\* [sent, exc, s]
get_autopulseStatus(reply) == communicate("sta puls", reply)

get_fineStatus(reply) == communicate("sta fine", reply)

-----------------------------------------------------------------------------
(* What the device may answer *)

TextON == <<"O", "N">>
TextOFF == <<"O", "F", "F">>

StateText(dev) == IF dev = "ON" THEN TextON ELSE TextOFF

\* 'sta la': the state, nothing within the read timeout, or a dead line
StateReplies(dev) == {Reply(StateText(dev) \o Suffix), Reply(<<>>), IoFail}

\* 'sta la' as the poll passes of Spec see it
PollStateReplies(dev) == {Reply(StateText(dev) \o Suffix), IoFail}

\* 'sh pow': a power in uW, nothing within the read timeout (no '='), or
\* a value that is no number
PowerAnswer == Reply(<<"P", " ", "=", " ", "7", " ", "u", "W">> \o Suffix)

PowerReplies ==
    {PowerAnswer,
     Reply(<<>>),
     Reply(<<"P", " ", "=", " ", "-", " ", "u", "W">> \o Suffix)}

\* 'sh temp sys' and 'sh temp'
SysTempAnswer == Reply(<<"T", " ", "=", " ", "2", "1", " ", "C">> \o Suffix)

SysTempReplies ==
    {SysTempAnswer,
     Reply(<<"T", " ", "=", " ", "-", " ", "C">> \o Suffix)}

TempAnswer == Reply(<<"T", " ", "=", " ", "2", "5", " ", "C">> \o Suffix)

TempReplies ==
    {TempAnswer,
     Reply(<<BadByte>>)}

\* 'sta puls' and 'sta fine'
StatusAnswer == Reply(TextOFF \o Suffix)

StatusReplies == {StatusAnswer, IoFail}

\* 'serial'
SerialReplies ==
    {Reply(<<"i", "B", "E", "A", "M", "-", "7">> \o Suffix),
     Reply(<<"S", "N", " ", "i", "B", "E", "A", "M">> \o Suffix),
     Reply(<<"L", "X", "-", "7">> \o Suffix),
     Reply(<<"i", "B", "E", "A">> \o Suffix),
     Reply(<<"i", "B", "E", "A", "M">>),
     Reply(<<>>),
     Reply(<<BadByte>> \o Suffix),
     IoFail}

\* 'la on', 'la off'
CommandReplies == {Reply(Suffix), IoFail}

\* ser.write raises on a closed port
OnLine(replies) == IF ser.is_open THEN replies ELSE {IoFail}

-----------------------------------------------------------------------------
(* TopticaLaserLogic: the operations *)

\* self.module_state: run(), can('stop'), stop()
module_state_run(ms) == "running"

module_state_can_stop(ms) == ms = "running"

module_state_stop(ms) == "idle"

\* TopticaLaserLogic.set_laser_state(state): [sent, exc, emits]
logic_set_laser_state(state, laser_state, reply) ==
    IF state /\ laser_state = "OFF"
    THEN LET r == on(reply)
         IN  [sent |-> r.sent, exc |-> r.exc,
              emits |-> IF r.exc = "none" THEN 1 ELSE 0]
    ELSE IF ~state /\ laser_state = "ON"
    THEN LET r == off(reply)
         IN  [sent |-> r.sent, exc |-> r.exc,
              emits |-> IF r.exc = "none" THEN 1 ELSE 0]
    ELSE [sent |-> <<>>, exc |-> "none", emits |-> 1]

\* np.roll(b, 1): the buffer shifted the other way
RollRight(b) == <<b[Len(b)]>> \o SubSeq(b, 1, Len(b) - 1)

\* np.roll(b, -1) and b[-1] = v
Roll(b) == Tail(b) \o <<b[1]>>

SetLast(b, v) == [b EXCEPT ![Len(b)] = v]

\* check_laser_loop with stopRequest clear.  r holds what the five queries
\* do: r.g get_laser_state, r.w get_power, r.c get_temperatures,
\* r.a get_autopulseStatus, r.f get_fineStatus.

\* The first query that raises (0: none does)
pass_failAt(r) ==
    IF r.g.exc # "none" THEN 1
    ELSE IF r.w.exc # "none" THEN 2
    ELSE IF r.c.exc # "none" THEN 3
    ELSE IF r.a.exc # "none" THEN 4
    ELSE IF r.f.exc # "none" THEN 5
    ELSE 0

\* The attributes assigned together, once every query has returned
pass_pub_at_end(p, r) ==
    IF pass_failAt(r) # 0 THEN p
    ELSE [laser_state |-> r.g.val, laser_power |-> r.w.f, base |-> r.c.sys,
          diode |-> r.c.ld, autopulseInfo |-> r.a.s, fineInfo |-> r.f.s]

\* self.laser_state = ..., self.laser_power = ..., ...: each assignment is
\* made when its query returned
pass_pub(p, r) ==
    LET failAt == pass_failAt(r)
        returned(k) == failAt = 0 \/ failAt > k
    IN  [laser_state |-> IF returned(1) THEN r.g.val ELSE p.laser_state,
         laser_power |-> IF returned(2) THEN r.w.f ELSE p.laser_power,
         base |-> IF returned(3) THEN r.c.sys ELSE p.base,
         diode |-> IF returned(3) THEN r.c.ld ELSE p.diode,
         autopulseInfo |-> IF returned(4) THEN r.a.s ELSE p.autopulseInfo,
         fineInfo |-> IF returned(5) THEN r.f.s ELSE p.fineInfo]

\* The lines written: those of the queries up to the one that raised
pass_sent(r) ==
    LET failAt == pass_failAt(r)
        issued(k) == failAt = 0 \/ failAt >= k
    IN  r.g.sent \o (IF issued(2) THEN r.w.sent ELSE <<>>)
                 \o (IF issued(3) THEN r.c.sent ELSE <<>>)
                 \o (IF issued(4) THEN r.a.sent ELSE <<>>)
                 \o (IF issued(5) THEN r.f.sent ELSE <<>>)

\* The buffers shifted and stored whether or not a query raised
pass_data_unguarded(d, p2, t, ok) ==
    LET rolled == [k \in DOMAIN d |-> Roll(d[k])]
    IN  [rolled EXCEPT !.power = SetLast(@, p2.laser_power),
                       !.time = SetLast(@, Float(t, 1)),
                       !.base = SetLast(@, p2.base),
                       !.diode = SetLast(@, p2.diode)]

\* for k in self.data: np.roll ...; self.data['power'][-1] = ... : reached
\* when no query raised
pass_data(d, p2, t, ok) ==
    LET rolled == [k \in DOMAIN d |-> Roll(d[k])]
    IN  IF ok
        THEN [rolled EXCEPT !.power = SetLast(@, p2.laser_power),
                            !.time = SetLast(@, Float(t, 1)),
                            !.base = SetLast(@, p2.base),
                            !.diode = SetLast(@, p2.diode)]
        ELSE d

\* The timer started inside the try block only
pass_starts_in_try(ok) == IF ok THEN <<queryInterval>> ELSE <<>>

\* qi, as handed to self.queryTimer.start(qi) after the try block
pass_starts(ok) == <<IF ok THEN queryInterval ELSE ThrottledInterval>>

\* self.sigUpdate.emit() after the try block
pass_emits(ok) == 1

\* [ok, data, pub, sent, starts, emits]
poll_pass(d, p, t, r) ==
    LET ok == pass_failAt(r) = 0
        p2 == pass_pub(p, r)
    IN  [ok |-> ok,
         data |-> pass_data(d, p2, t, ok),
         pub |-> p2,
         sent |-> pass_sent(r),
         starts |-> pass_starts(ok),
         emits |-> pass_emits(ok)]

\* The stop branch without self.stopRequest = False
stop_not_cleared(ms) ==
    [module_state |-> IF module_state_can_stop(ms) THEN module_state_stop(ms)
                      ELSE ms,
     stopRequest |-> TRUE]

\* check_laser_loop with stopRequest set: [module_state, stopRequest]
stop_acknowledged(ms) ==
    [module_state |-> IF module_state_can_stop(ms) THEN module_state_stop(ms)
                      ELSE ms,
     stopRequest |-> FALSE]

\* start_query_loop that leaves the timer alone when the loop is running
start_when_idle(ms) ==
    [module_state |-> module_state_run(ms),
     starts |-> IF ms = "running" THEN <<>> ELSE <<queryInterval>>]

\* start_query_loop: [module_state, starts]
start_query_loop(ms) ==
    [module_state |-> module_state_run(ms), starts |-> <<queryInterval>>]

\* self.queryTimer.setSingleShot(True): an expired timer is not active
Expired(timer) == [timer EXCEPT !.active = FALSE]

\* timeout connected to check_laser_loop twice
ConnectedTwice(q) == Append(Append(q, "timeout"), "timeout")

\* self.queryTimer.timeout.connect(self.check_laser_loop,
\* QtCore.Qt.QueuedConnection): an expiry posts one call of the slot
Timeout(q) == Append(q, "timeout")

\* A timer whose interval a start can only widen
StartedWidest(timer, starts) ==
    IF starts = <<>> THEN timer
    ELSE [active |-> TRUE,
          interval |-> IF starts[Len(starts)] > timer.interval
                       THEN starts[Len(starts)] ELSE timer.interval]

\* self.queryTimer.start(msec) for each msec in starts, in order
Started(timer, starts) ==
    IF starts = <<>> THEN timer
    ELSE [active |-> TRUE, interval |-> starts[Len(starts)]]

-----------------------------------------------------------------------------
(* Initial values *)

Zero == Float(0, 1)

Zeros == [k \in 1..bufferLength |-> Zero]

\* started: start_query_loop was called, and since then neither
\* stop_query_loop nor a pass; stopping: stop_query_loop was called with the
\* timer armed, and start_query_loop not since
NoCall == [kind |-> "none", ok |-> TRUE, failAt |-> 0, starts |-> <<>>,
           emits |-> 0, started |-> FALSE, stopping |-> FALSE]

NoRet == [op |-> "none", arg |-> "", dev |-> "OFF", cached |-> "OFF",
          exc |-> "none", val |-> "None", f |-> Zero, f2 |-> Zero]

NotCalled == IntVal(-1)

\* TopticaLaser.on_activate: self.ser = serial.Serial(), closed until
\* connect_laser(com_port) has opened it
InitFacadeVars(connected) ==
    /\ ser = IF connected THEN [is_open |-> TRUE, port |-> "COM3"]
             ELSE [is_open |-> FALSE, port |-> "none"]
    /\ handles = IF connected THEN 1 ELSE 0
    /\ devLaser \in {"ON", "OFF"}
    /\ sent = <<>>
    /\ ret = NoRet
    /\ serialReply = <<>>
    /\ inbuf = <<>>

\* TopticaLaserLogic.on_activate, the device answering every query
InitLogicVars ==
    /\ stopRequest = FALSE
    /\ module_state = "running"
    /\ queryTimer = [active |-> TRUE, interval |-> queryInterval]
    /\ queue = <<>>
    /\ stack = <<[fn |-> "loop", i |-> 0, at |-> "posted"]>>
    /\ now = 0
    /\ data = [current |-> Zeros, power |-> Zeros,
               time |-> [k \in 1..bufferLength |-> Float(now, 1)],
               base |-> Zeros, diode |-> Zeros]
    /\ pub = [laser_state |-> devLaser, laser_power |-> Float(7, 1000),
              base |-> Float(21, 1), diode |-> Float(25, 1),
              autopulseInfo |-> TextOFF, fineInfo |-> TextOFF]
    /\ hist = <<>>
    /\ consec = 0
    /\ lastCall = NoCall
    /\ posts = 0

-----------------------------------------------------------------------------
(* MicrowaveRSSGS: the operations.  wr is the ordinal of the self.dev.write *)
(* that raises, 0 when none does; each returns [m, val].                    *)

\* on_activate: self.mode = 'none', is_running as the device reports; no
\* sweep_list until set_sweep
MwActivated(running) ==
    [is_running |-> running, mode |-> "none", has_sweep |-> FALSE, n |-> 0,
     pos |-> 0, op |-> "none", val |-> "None"]

\* try: write; self.is_running = ...; self.mode = ...; return 0
\* except: return -1
mw_switch(m, wr, running, mode) ==
    IF wr = 1 THEN [m |-> m, val |-> "-1"]
    ELSE [m |-> [m EXCEPT !.is_running = running, !.mode = mode], val |-> "0"]

cw_on(m, wr) == mw_switch(m, wr, TRUE, "cw")

list_on(m, wr) == mw_switch(m, wr, TRUE, "list")

mw_off(m, wr) == mw_switch(m, wr, FALSE, m.mode)

\* The entries of sweep_list that are >= sweep_freq
SweepLeft(m) == IF m.pos > m.n THEN 0 ELSE m.n - m.pos + 1

\* sweep_on: the flag and the mode are assigned after the first write, then
\* one write for every k in self.sweep_list with k >= self.sweep_freq
sweep_on(m, wr) ==
    IF wr = 1 THEN [m |-> m, val |-> "-1"]
    ELSE LET sw == [m EXCEPT !.is_running = TRUE, !.mode = "sweep"]
         IN  IF ~m.has_sweep THEN [m |-> sw, val |-> "-1"]
             ELSE IF wr \in 2..(SweepLeft(m) + 1)
             THEN [m |-> [sw EXCEPT !.pos = m.pos + wr - 2], val |-> "-1"]
             ELSE [m |-> [sw EXCEPT !.pos = IF SweepLeft(m) = 0 THEN m.pos
                                            ELSE m.n],
                   val |-> "0"]

\* set_sweep: the list of n frequencies from start to stop; sweep_freq ends
\* beyond stop; sweep_list[0] raises when the list is empty
set_sweep(m, n, wr) ==
    [m |-> [m EXCEPT !.has_sweep = TRUE, !.n = n, !.pos = n + 1],
     val |-> IF n = 0 \/ wr \in 1..2 THEN "-1" ELSE "0"]

\* reset_sweeppos: self.sweep_freq = self.sweep_list[0]
reset_sweeppos(m) ==
    IF ~m.has_sweep THEN [m |-> m, exc |-> "AttributeError"]
    ELSE IF m.n = 0 THEN [m |-> m, exc |-> "IndexError"]
    ELSE [m |-> [m EXCEPT !.pos = 1], exc |-> "none"]

-----------------------------------------------------------------------------
(* SpecParse: _getValue on every short text *)

Alphabet == {"k", "=", " ", "1"}

Texts == UNION {[1..n -> Alphabet] : n \in 0..MaxLen}

InitParse ==
    /\ terminalString \in Texts
    /\ val = NotCalled
    /\ InitFacadeVars(FALSE)
    /\ devLaser = "OFF"
    /\ InitLogicVars
    /\ mw = MwActivated(FALSE)
    /\ rd = NotReading
    /\ gui = GuiActivated
    /\ swp = NotSweeping
    /\ maxTime = 0

ParseCall ==
    /\ val = NotCalled
    /\ val' = getValue(terminalString)
    /\ UNCHANGED <<auxVars, terminalString, facadeVars, logicVars>>

SpecParse == InitParse /\ [][ParseCall]_vars

-----------------------------------------------------------------------------
(* SpecFacade: calls on one TopticaLaser, one after the other *)

Ports == {"COM3", "COM4"}

InitFacade ==
    /\ terminalString = <<>>
    /\ val = NotCalled
    /\ InitFacadeVars(FALSE)
    /\ InitLogicVars
    /\ mw = MwActivated(FALSE)
    /\ rd = NotReading
    /\ gui = GuiActivated
    /\ swp = NotSweeping
    /\ maxTime = 0

Ret(op, arg, exc, v) ==
    [op |-> op, arg |-> arg, dev |-> devLaser, cached |-> pub.laser_state,
     exc |-> exc, val |-> v, f |-> Zero, f2 |-> Zero]

\* The outcome of an operation that returns numbers: val is "float" or
\* "dict" when it returned, f and f2 the numbers
RetNum(op, exc, kind, f, f2) ==
    [Ret(op, "", exc, IF exc = "none" THEN kind ELSE "None")
        EXCEPT !.f = f, !.f2 = f2]

\* connect_laser(port): [is_open, sent, exc, val, s] for what ser.open()
\* does ("ok" or "SerialException") and what the device answers
connect_laser(is_open, opened, reply) ==
    IF opened # "ok"
    THEN [is_open |-> is_open, sent |-> <<>>, exc |-> "none", val |-> "False",
          s |-> <<>>]
    ELSE LET c == _checkIfToptica(reply)
         IN  [is_open |-> TRUE, sent |-> c.sent, exc |-> c.exc, s |-> c.s,
              val |-> IF c.exc # "none" THEN "None" ELSE c.val]

\* serial.Serial.open() raises SerialException on a port that is open
OpenOutcomes == IF ser.is_open THEN {"SerialException"} ELSE {"ok", "SerialException"}

\* A close() that releases nothing
ser_close_leaks(s, h) == h

\* serial.Serial.close(), also run when a Serial object is dropped: the
\* ports held open afterwards
ser_close(s, h) == IF s.is_open THEN h - 1 ELSE h

\* self.ser.port = port on an open Serial closes it and opens the new port,
\* which may fail; then connect_laser goes on
ConnectLaser ==
    \E port \in Ports, reopened \in {"ok", "SerialException"},
       opened \in OpenOutcomes, reply \in SerialReplies :
        IF ser.is_open /\ reopened # "ok"
        THEN /\ ser' = [is_open |-> FALSE, port |-> port]
             /\ handles' = ser_close(ser, handles)
             /\ sent' = <<>>
             /\ inbuf' = <<>>
             /\ serialReply' = <<>>
             /\ ret' = Ret("connect_laser", port, "SerialException", "None")
             /\ UNCHANGED <<devLaser, auxVars, parseVars, logicVars>>
        ELSE LET r == connect_laser(ser.is_open, opened, reply)
             IN  /\ ser' = [is_open |-> r.is_open, port |-> port]
                 /\ handles' = IF r.is_open /\ ~ser.is_open THEN handles + 1
                               ELSE handles
                 /\ sent' = r.sent
                 /\ inbuf' = <<>>
                 /\ serialReply' = r.s
                 /\ ret' = Ret("connect_laser", port, r.exc, r.val)
                 /\ UNCHANGED <<devLaser, auxVars, parseVars, logicVars>>

DisconnectLaser ==
    /\ ser' = [ser EXCEPT !.is_open = FALSE]
    /\ handles' = ser_close(ser, handles)
    /\ sent' = <<>>
    /\ inbuf' = <<>>
    /\ ret' = Ret("disconnect_laser", "", "none", "None")
    /\ UNCHANGED <<devLaser, serialReply, auxVars, parseVars, logicVars>>

\* on_activate: self.ser = serial.Serial() drops the Serial the instance
\* had, then connect_laser(self.com_port)
OnActivate ==
    \E opened \in {"ok", "SerialException"}, reply \in SerialReplies :
        LET r == connect_laser(FALSE, opened, reply)
        IN  /\ ser' = [is_open |-> r.is_open, port |-> "COM3"]
            /\ handles' = ser_close(ser, handles) + (IF r.is_open THEN 1 ELSE 0)
            /\ sent' = r.sent
            /\ inbuf' = <<>>
            /\ serialReply' = r.s
            /\ ret' = Ret("on_activate", "", r.exc, r.val)
            /\ UNCHANGED <<devLaser, auxVars, parseVars, logicVars>>

\* on_deactivate: self.disconnect_laser(); ret.arg keeps whether the port
\* was open when it was called
OnDeactivate ==
    /\ ser' = [ser EXCEPT !.is_open = FALSE]
    /\ handles' = ser_close(ser, handles)
    /\ sent' = <<>>
    /\ inbuf' = <<>>
    /\ ret' = Ret("on_deactivate", IF ser.is_open THEN "open" ELSE "closed",
                  "none", "None")
    /\ UNCHANGED <<devLaser, serialReply, auxVars, parseVars, logicVars>>

FacadeGetLaserState ==
    \E reply \in OnLine(StateReplies(devLaser)) :
        LET r == get_laser_state(reply)
        IN  /\ sent' = r.sent
            /\ inbuf' = ReadAll(inbuf, r.sent)
            /\ ret' = Ret("get_laser_state", "", r.exc, r.val)
            /\ UNCHANGED <<ser, handles, devLaser, serialReply, auxVars, parseVars, logicVars>>

FacadeSetLaserState ==
    \E status \in {"ON", "OFF", "LOCKED"},
       wr \in (IF ser.is_open THEN {"ok", "fail"} ELSE {"fail"}),
       reply \in OnLine(StateReplies(devLaser)) :
        LET r == set_laser_state(status, wr, reply)
        IN  /\ sent' = r.sent
            /\ inbuf' = ReadAll(inbuf, r.sent)
            /\ devLaser' = DeviceAfter(devLaser, <<>>, r.sent)
            /\ ret' = Ret("set_laser_state", status, r.exc, r.val)
            /\ UNCHANGED <<ser, handles, serialReply, auxVars, parseVars, logicVars>>

FacadeOnOff ==
    \E which \in {"on", "off"}, reply \in OnLine(CommandReplies) :
        LET r == IF which = "on" THEN on(reply) ELSE off(reply)
        IN  /\ sent' = r.sent
            /\ inbuf' = ReadAll(inbuf, r.sent)
            /\ devLaser' = DeviceAfter(devLaser, <<>>, r.sent)
            /\ ret' = Ret(which, "", r.exc, r.val)
            /\ UNCHANGED <<ser, handles, serialReply, auxVars, parseVars, logicVars>>

\* What the device may answer to 'sh pow' and 'sh temp', also bytes that
\* are no UTF-8
FacadePowerReplies == PowerReplies \cup {Reply(<<BadByte>> \o Suffix)}

FacadeTempReplies == TempReplies \cup {Reply(<<>>)}

FacadeGetPower ==
    \E reply \in OnLine(FacadePowerReplies) :
        LET r == get_power(reply)
            parsed == r.sent # <<>> /\ get_terminal_string(reply.raw).exc = "none"
        IN  /\ sent' = r.sent
            /\ inbuf' = ReadAll(inbuf, r.sent)
            /\ ret' = RetNum("get_power", r.exc, "float", r.f, Zero)
            /\ terminalString' = IF parsed THEN get_terminal_string(reply.raw).s
                                  ELSE terminalString
            /\ val' = IF parsed THEN getValue(get_terminal_string(reply.raw).s)
                       ELSE val
            /\ UNCHANGED <<auxVars, ser, handles, devLaser, serialReply, logicVars>>

FacadeGetTemperatures ==
    \E reply1 \in OnLine(SysTempReplies), reply2 \in OnLine(FacadeTempReplies) :
        LET r == get_temperatures(reply1, reply2)
            t1 == get_terminal_string(reply1.raw)
            t2 == get_terminal_string(reply2.raw)
            parsed1 == Len(r.sent) >= 1 /\ t1.exc = "none"
            parsed2 == Len(r.sent) = 2 /\ t2.exc = "none"
        IN  /\ sent' = r.sent
            /\ inbuf' = ReadAll(inbuf, r.sent)
            /\ ret' = RetNum("get_temperatures", r.exc, "dict", r.sys, r.ld)
            /\ terminalString' = IF parsed2 THEN t2.s
                                  ELSE IF parsed1 THEN t1.s ELSE terminalString
            /\ val' = IF parsed2 THEN getValue(t2.s)
                       ELSE IF parsed1 THEN getValue(t1.s) ELSE val
            /\ UNCHANGED <<auxVars, ser, handles, devLaser, serialReply, logicVars>>

\* self.laser_state = self._laser.get_laser_state(), as a poll pass does
LogicReadLaserState ==
    \E reply \in OnLine(StateReplies(devLaser)) :
        LET r == get_laser_state(reply)
        IN  /\ r.exc = "none"
            /\ sent' = r.sent
            /\ inbuf' = ReadAll(inbuf, r.sent)
            /\ pub' = [pub EXCEPT !.laser_state = r.val]
            /\ ret' = Ret("logic.get_laser_state", "", r.exc, r.val)
            /\ UNCHANGED <<ser, handles, devLaser, serialReply, auxVars, parseVars, stopRequest,
                           module_state, queryTimer, queue, stack, data, now,
                           hist, consec, lastCall, posts, maxTime>>

LogicSetLaserState ==
    \E state \in BOOLEAN, reply \in OnLine(CommandReplies) :
        LET r == logic_set_laser_state(state, pub.laser_state, reply)
        IN  /\ sent' = r.sent
            /\ inbuf' = ReadAll(inbuf, r.sent)
            /\ devLaser' = DeviceAfter(devLaser, <<>>, r.sent)
            /\ ret' = Ret("logic.set_laser_state",
                          IF state THEN "ON" ELSE "OFF", r.exc, "None")
            /\ UNCHANGED <<ser, handles, serialReply, auxVars, parseVars, logicVars>>

NextFacade ==
    \/ OnActivate
    \/ OnDeactivate
    \/ ConnectLaser
    \/ DisconnectLaser
    \/ FacadeGetLaserState
    \/ FacadeSetLaserState
    \/ FacadeOnOff
    \/ FacadeGetPower
    \/ FacadeGetTemperatures
    \/ LogicReadLaserState
    \/ LogicSetLaserState

SpecFacade == InitFacade /\ [][NextFacade]_vars

-----------------------------------------------------------------------------
(* Spec: the logic's thread.  The thread delivers the posted events in     *)
(* order until none is left, then lets a due timer expire; processEvents() *)
(* inside stop_query_loop does the same, nested.                           *)

Top == stack[Len(stack)]

Pop == SubSeq(stack, 1, Len(stack) - 1)

SetTop(f) == [stack EXCEPT ![Len(stack)] = f]

Frame(fn, i, at) == [fn |-> fn, i |-> i, at |-> at]

\* The thread is delivering posted events
Delivering == Top.fn \in {"loop", "stop"} /\ Top.at = "posted"

\* stop_query_loop waiting until the flag is cleared, however long
AfterTimersUnbounded(stk, stop) ==
    LET f == stk[Len(stk)]
        rest == SubSeq(stk, 1, Len(stk) - 1)
    IN  IF f.fn = "loop" THEN rest \o <<[f EXCEPT !.at = "posted"]>>
        ELSE IF ~stop THEN rest
        ELSE rest \o <<[f EXCEPT !.i = f.i + 1, !.at = "posted"]>>

\* Where the thread goes on once the timers were looked at.  The event
\* loop turns to the posted events again.  In stop_query_loop
\* processEvents() returns, the thread sleeps, and the loop ends after its
\* last iteration or goes on with the test of stopRequest
AfterTimers(stk, stop) ==
    LET f == stk[Len(stk)]
        rest == SubSeq(stk, 1, Len(stk) - 1)
    IN  IF f.fn = "loop" THEN rest \o <<[f EXCEPT !.at = "posted"]>>
        ELSE IF f.i + 1 = StopIterations \/ ~stop THEN rest
        ELSE rest \o <<[f EXCEPT !.i = f.i + 1, !.at = "posted"]>>

Init ==
    /\ terminalString = <<>>
    /\ val = NotCalled
    /\ InitFacadeVars(TRUE)
    /\ InitLogicVars
    /\ mw = MwActivated(FALSE)
    /\ rd = NotReading
    /\ gui = GuiActivated
    /\ swp = NotSweeping
    /\ maxTime = LoopPasses

\* Another thread invokes a slot of the logic: the call is queued
Post(ev) ==
    /\ posts < MaxPosts
    /\ posts' = posts + 1
    /\ queue' = Append(queue, ev)
    /\ UNCHANGED <<auxVars, parseVars, facadeVars, stopRequest, module_state, queryTimer,
                   stack, data, pub, now, hist, consec, lastCall, maxTime>>

PostStart == Post("start")

PostStop == Post("stop")

\* No posted event is left: the thread turns to its timers
EndPosted ==
    /\ Delivering
    /\ queue = <<>>
    /\ stack' = SetTop([Top EXCEPT !.at = "timers"])
    /\ UNCHANGED <<auxVars, parseVars, facadeVars, stopRequest, module_state, queryTimer,
                   queue, data, pub, now, hist, consec, lastCall, posts, maxTime>>

\* queryTimer expires: single-shot, and timeout is connected to
\* check_laser_loop by a QueuedConnection
TimerFire ==
    /\ Top.at = "timers"
    /\ queryTimer.active
    /\ now < maxTime
    /\ queryTimer' = Expired(queryTimer)
    /\ queue' = Timeout(queue)
    /\ now' = now + 1
    /\ stack' = AfterTimers(stack, stopRequest)
    /\ UNCHANGED <<auxVars, parseVars, facadeVars, stopRequest, module_state, data, pub,
                   hist, consec, lastCall, posts, maxTime>>

\* No timer is due: the event loop waits for an event, processEvents()
\* returns
TimersQuiet ==
    /\ Top.at = "timers"
    /\ Top.fn = "loop" => queue # <<>>
    /\ stack' = AfterTimers(stack, stopRequest)
    /\ UNCHANGED <<auxVars, parseVars, facadeVars, stopRequest, module_state, queryTimer,
                   queue, data, pub, now, hist, consec, lastCall, posts, maxTime>>

\* check_laser_loop is called: with stopRequest set it returns at once
CheckLaserLoop ==
    /\ Delivering
    /\ queue # <<>> /\ Head(queue) = "timeout"
    /\ queue' = Tail(queue)
    /\ IF stopRequest
       THEN LET r == stop_acknowledged(module_state)
            IN  /\ module_state' = r.module_state
                /\ stopRequest' = r.stopRequest
                /\ lastCall' = [NoCall EXCEPT !.kind = "stopped",
                                              !.started = lastCall.started,
                                              !.stopping = lastCall.stopping]
                /\ sent' = <<>>
                /\ UNCHANGED stack
       ELSE /\ stack' = Append(stack, Frame("pass", 0, "run"))
            /\ UNCHANGED <<module_state, stopRequest, lastCall, sent>>
    /\ UNCHANGED <<auxVars, parseVars, ser, handles, devLaser, ret, serialReply, inbuf,
                   queryTimer, data,
                   pub, now, hist, consec, posts, maxTime>>

\* ... otherwise it queries the device, shifts the buffers, rearms the
\* timer and emits sigUpdate.  q holds what the five queries do
PollPassOn(q) ==
    /\ Top.fn = "pass"
    /\ LET r == poll_pass(data, pub, now, q)
       IN  /\ data' = r.data
           /\ pub' = r.pub
           /\ sent' = r.sent
           /\ inbuf' = ReadAll(inbuf, r.sent)
           /\ queryTimer' = Started(queryTimer, r.starts)
           /\ lastCall' = [kind |-> "pass", ok |-> r.ok,
                           failAt |-> pass_failAt(q), starts |-> r.starts,
                           emits |-> r.emits, started |-> FALSE,
                           stopping |-> lastCall.stopping]
           /\ hist' = IF r.ok
                      THEN Append(hist, [power |-> r.pub.laser_power,
                                         time |-> Float(now, 1),
                                         base |-> r.pub.base,
                                         diode |-> r.pub.diode])
                      ELSE hist
           /\ consec' = IF r.ok THEN consec + 1 ELSE 0
    /\ stack' = Pop
    /\ UNCHANGED <<auxVars, parseVars, ser, handles, devLaser, ret, serialReply, stopRequest,
                   module_state, queue, now, posts, maxTime>>

PollPass ==
    \E g \in {get_laser_state(x) : x \in OnLine(PollStateReplies(devLaser))},
       w \in {get_power(x) : x \in OnLine(PowerReplies)},
       c \in {get_temperatures(x, y) : x \in OnLine(SysTempReplies),
                                       y \in OnLine(TempReplies)},
       a \in {get_autopulseStatus(x) : x \in OnLine(StatusReplies)},
       f \in {get_fineStatus(x) : x \in OnLine(StatusReplies)} :
        PollPassOn([g |-> g, w |-> w, c |-> c, a |-> a, f |-> f])

\* The passes of Spec: every query is answered, or the first or the last
\* query raises
PollPassBrief ==
    \E g \in {get_laser_state(x) : x \in OnLine(PollStateReplies(devLaser))},
       f \in {get_fineStatus(x) : x \in OnLine(StatusReplies)} :
        PollPassOn([g |-> g,
                    w |-> get_power(PowerAnswer),
                    c |-> get_temperatures(SysTempAnswer, TempAnswer),
                    a |-> get_autopulseStatus(StatusAnswer),
                    f |-> f])

StartQueryLoop ==
    /\ Delivering
    /\ queue # <<>> /\ Head(queue) = "start"
    /\ queue' = Tail(queue)
    /\ LET r == start_query_loop(module_state)
       IN  /\ module_state' = r.module_state
           /\ queryTimer' = Started(queryTimer, r.starts)
    /\ lastCall' = [lastCall EXCEPT !.started = TRUE, !.stopping = FALSE]
    /\ UNCHANGED <<auxVars, parseVars, facadeVars, stopRequest, stack, data, pub, now,
                   hist, consec, posts, maxTime>>

\* stop_query_loop: self.stopRequest = True, and into the loop, whose first
\* test of stopRequest finds it set
StopQueryLoop ==
    /\ Delivering
    /\ queue # <<>> /\ Head(queue) = "stop"
    /\ queue' = Tail(queue)
    /\ stopRequest' = TRUE
    /\ stack' = Append(stack, Frame("stop", 0, "posted"))
    /\ lastCall' = [lastCall EXCEPT
                      !.started = FALSE,
                      !.stopping = lastCall.stopping \/ queryTimer.active]
    /\ UNCHANGED <<auxVars, parseVars, facadeVars, module_state, queryTimer, data, pub,
                   now, hist, consec, posts, maxTime>>

Next ==
    \/ PostStart
    \/ PostStop
    \/ EndPosted
    \/ TimerFire
    \/ TimersQuiet
    \/ CheckLaserLoop
    \/ PollPassBrief
    \/ StartQueryLoop
    \/ StopQueryLoop

Spec == Init /\ [][Next]_vars

-----------------------------------------------------------------------------
(* SpecRing: the poll passes alone, more of them than a buffer is long, *)
(* each query answered or failing in every way the replies allow         *)

InitRing ==
    /\ terminalString = <<>>
    /\ val = NotCalled
    /\ InitFacadeVars(TRUE)
    /\ InitLogicVars
    /\ mw = MwActivated(FALSE)
    /\ rd = NotReading
    /\ gui = GuiActivated
    /\ swp = NotSweeping
    /\ maxTime = bufferLength + ExtraPasses

NextRing ==
    \/ EndPosted
    \/ TimerFire
    \/ CheckLaserLoop
    \/ PollPass

SpecRing == InitRing /\ [][NextRing]_vars

-----------------------------------------------------------------------------
(* SpecCommands: the setters and queries of a connected TopticaLaser *)

InitCommands ==
    /\ terminalString = <<>>
    /\ val = NotCalled
    /\ InitFacadeVars(TRUE)
    /\ InitLogicVars
    /\ mw = MwActivated(FALSE)
    /\ rd = NotReading
    /\ gui = GuiActivated
    /\ swp = NotSweeping
    /\ maxTime = 0

FacadeUnsupported ==
    \E op \in ReturnMinusOne \cup WarnOnly :
        LET r == unsupported(op)
        IN  /\ sent' = r.sent
            /\ inbuf' = ReadAll(inbuf, r.sent)
            /\ ret' = Ret(op, "", r.exc, r.val)
            /\ UNCHANGED <<ser, handles, devLaser, serialReply, auxVars, parseVars, logicVars>>

\* The periods and widths the GUI passes on, in microseconds
Microseconds == {0, 1, 20, 150, 12345, 500000, 1000000, 2500000}

\* ret.f keeps the argument
FacadeSetAutopulsePer ==
    \E per \in Microseconds, reply \in OnLine(CommandReplies) :
        LET r == set_autopulse_per(per, reply)
        IN  /\ sent' = r.sent
            /\ inbuf' = ReadAll(inbuf, r.sent)
            /\ ret' = RetNum("set_autopulse_per", r.exc, r.val, Float(per, 1), Zero)
            /\ UNCHANGED <<ser, handles, devLaser, serialReply, auxVars, parseVars, logicVars>>

FacadeSetAutopulseWidth ==
    \E width \in Microseconds, reply \in OnLine(CommandReplies) :
        LET r == set_autopulse_width(width, reply)
        IN  /\ sent' = r.sent
            /\ inbuf' = ReadAll(inbuf, r.sent)
            /\ ret' = RetNum("set_autopulse_width", r.exc, r.val, Float(width, 1),
                             Zero)
            /\ UNCHANGED <<ser, handles, devLaser, serialReply, auxVars, parseVars, logicVars>>

\* The powers the GUI passes on, in thousandths of a milliwatt
Powers == {5, 1500, 12000}

FacadeSetPowerCh ==
    \E ch \in 1..2, power \in Powers, reply \in OnLine({Reply(<<>>)}) :
        LET r == set_power_ch(ch, power, reply.io)
        IN  /\ Len(inbuf) < MaxUnread
            /\ sent' = r.sent
            /\ inbuf' = inbuf \o r.unread
            /\ ret' = RetNum(IF ch = 1 THEN "set_power_ch1" ELSE "set_power_ch2",
                             r.exc, "None", Float(power, 1000), Zero)
            /\ UNCHANGED <<ser, handles, devLaser, serialReply, auxVars, parseVars,
                           logicVars>>

NextCommands ==
    \/ FacadeUnsupported
    \/ FacadeSetPowerCh
    \/ FacadeGetPower
    \/ FacadeSetAutopulsePer
    \/ FacadeSetAutopulseWidth

SpecCommands == InitCommands /\ [][NextCommands]_vars

-----------------------------------------------------------------------------
(* SpecMicrowave: calls on one MicrowaveRSSGS *)

InitMicrowave ==
    /\ terminalString = <<>>
    /\ val = NotCalled
    /\ InitFacadeVars(FALSE)
    /\ InitLogicVars
    /\ maxTime = 0
    /\ \E running \in BOOLEAN : mw = MwActivated(running)
    /\ rd = NotReading
    /\ gui = GuiActivated
    /\ swp = NotSweeping

MwReturned(r, op) == [r.m EXCEPT !.op = op, !.val = r.val]

MwCwOn ==
    \E wr \in 0..1 :
        /\ mw' = MwReturned(cw_on(mw, wr), "cw_on")
        /\ UNCHANGED <<rd, gui, swp, parseVars, facadeVars, logicVars>>

MwListOn ==
    \E wr \in 0..1 :
        /\ mw' = MwReturned(list_on(mw, wr), "list_on")
        /\ UNCHANGED <<rd, gui, swp, parseVars, facadeVars, logicVars>>

MwOff ==
    \E wr \in 0..1 :
        /\ mw' = MwReturned(mw_off(mw, wr), "off")
        /\ UNCHANGED <<rd, gui, swp, parseVars, facadeVars, logicVars>>

MwSweepOn ==
    \E wr \in 0..(MaxSweep + 1) :
        /\ mw' = MwReturned(sweep_on(mw, wr), "sweep_on")
        /\ UNCHANGED <<rd, gui, swp, parseVars, facadeVars, logicVars>>

MwSetSweep ==
    \E n \in 0..MaxSweep, wr \in 0..2 :
        /\ mw' = MwReturned(set_sweep(mw, n, wr), "set_sweep")
        /\ UNCHANGED <<rd, gui, swp, parseVars, facadeVars, logicVars>>

MwResetSweeppos ==
    LET r == reset_sweeppos(mw)
    IN  /\ mw' = [r.m EXCEPT !.op = "reset_sweeppos", !.val = r.exc]
        /\ UNCHANGED <<rd, gui, swp, parseVars, facadeVars, logicVars>>

NextMicrowave ==
    \/ MwCwOn
    \/ MwListOn
    \/ MwOff
    \/ MwSweepOn
    \/ MwSetSweep
    \/ MwResetSweeppos

SpecMicrowave == InitMicrowave /\ [][NextMicrowave]_vars

-----------------------------------------------------------------------------
(* SpecSerial: the logic's thread with a poll pass taken one write and one  *)
(* read at a time, and the setter slots the GUI's signals invoke           *)

InitSerial ==
    /\ terminalString = <<>>
    /\ val = NotCalled
    /\ InitFacadeVars(TRUE)
    /\ InitLogicVars
    /\ mw = MwActivated(FALSE)
    /\ rd = NotReading
    /\ gui = GuiActivated
    /\ swp = NotSweeping
    /\ maxTime = LoopPasses

\* The slots of the logic that sigPowerCh1 and sigPeriod are connected to
Setters == {"set_power_ch1", "set_autopulse_per"}

\* The GUI emits the signal from its thread: the call of the slot is queued
PostSetter == \E setter \in Setters : Post(setter)

\* A call from the GUI's thread that does not wait for the logic's thread
DeliveringDirect == TRUE

\* The logic's thread is at the place where it calls a queued slot
DeliveringSlot == Delivering

\* TopticaLaserLogic.set_power_ch1 and set_autopulse_per: the call of the
\* facade, from its write to its return
SlotSetter ==
    /\ DeliveringSlot
    /\ queue # <<>> /\ Head(queue) \in Setters
    /\ queue' = Tail(queue)
    /\ \E power \in Powers, per \in {500000} :
         IF Head(queue) = "set_power_ch1"
         THEN LET r == set_power_ch(1, power, "ok")
              IN  /\ sent' = r.sent
                  /\ inbuf' = inbuf \o r.unread
                  /\ ret' = RetNum("set_power_ch1", r.exc, "None",
                                   Float(power, 1000), Zero)
         ELSE LET r == set_autopulse_per(per, Reply(Suffix))
              IN  /\ sent' = r.sent
                  /\ inbuf' = ReadAll(inbuf, r.sent)
                  /\ ret' = RetNum("set_autopulse_per", r.exc, r.val,
                                   Float(per, 1), Zero)
    /\ UNCHANGED <<auxVars, parseVars, ser, handles, devLaser, serialReply, stopRequest,
                   module_state, queryTimer, stack, data, pub, now, hist,
                   consec, lastCall, posts, maxTime>>

\* What the five queries of a pass return when the device answers each
Answered ==
    [g |-> get_laser_state(Reply(StateText(devLaser) \o Suffix)),
     w |-> get_power(PowerAnswer),
     c |-> get_temperatures(SysTempAnswer, TempAnswer),
     a |-> get_autopulseStatus(StatusAnswer),
     f |-> get_fineStatus(StatusAnswer)]

\* The lines such a pass writes, in order
PassLines == poll_pass(data, pub, now, Answered).sent

\* self.ser.write(...) of the next query of the pass
PassWrite ==
    /\ Top.fn = "pass" /\ Top.at = "run"
    /\ Top.i < Len(PassLines)
    /\ sent' = <<PassLines[Top.i + 1]>>
    /\ inbuf' = Append(inbuf, PassLines[Top.i + 1].text)
    /\ stack' = SetTop([Top EXCEPT !.at = "written"])
    /\ UNCHANGED <<auxVars, parseVars, ser, handles, devLaser, ret, serialReply,
                   stopRequest, module_state, queryTimer, queue, data, pub, now,
                   hist, consec, lastCall, posts, maxTime>>

\* self._get_terminal_string() of that query
PassRead ==
    /\ Top.fn = "pass" /\ Top.at = "written"
    /\ inbuf' = <<>>
    /\ stack' = SetTop([Top EXCEPT !.i = Top.i + 1, !.at = "run"])
    /\ UNCHANGED <<auxVars, parseVars, ser, handles, devLaser, sent, ret, serialReply,
                   stopRequest, module_state, queryTimer, queue, data, pub, now,
                   hist, consec, lastCall, posts, maxTime>>

\* The pass after its last query: the buffers, the timer, sigUpdate
PassEnd ==
    /\ Top.fn = "pass" /\ Top.at = "run"
    /\ Top.i = Len(PassLines)
    /\ LET r == poll_pass(data, pub, now, Answered)
       IN  /\ data' = r.data
           /\ pub' = r.pub
           /\ queryTimer' = Started(queryTimer, r.starts)
           /\ lastCall' = [kind |-> "pass", ok |-> r.ok, failAt |-> 0,
                           starts |-> r.starts, emits |-> r.emits,
                           started |-> FALSE, stopping |-> lastCall.stopping]
           /\ hist' = Append(hist, [power |-> r.pub.laser_power,
                                    time |-> Float(now, 1),
                                    base |-> r.pub.base,
                                    diode |-> r.pub.diode])
           /\ consec' = consec + 1
    /\ stack' = Pop
    /\ UNCHANGED <<auxVars, parseVars, facadeVars, stopRequest, module_state, queue,
                   now, posts, maxTime>>

NextSerial ==
    \/ PostStop
    \/ PostSetter
    \/ EndPosted
    \/ TimerFire
    \/ TimersQuiet
    \/ CheckLaserLoop
    \/ StopQueryLoop
    \/ SlotSetter
    \/ PassWrite
    \/ PassRead
    \/ PassEnd

SpecSerial == InitSerial /\ [][NextSerial]_vars

-----------------------------------------------------------------------------
(* SpecRead: one call of _get_terminal_string, the port delivering the     *)
(* response in chunks                                                      *)

InitRead ==
    /\ terminalString = <<>>
    /\ val = NotCalled
    /\ InitFacadeVars(TRUE)
    /\ devLaser = "OFF"
    /\ InitLogicVars
    /\ mw = MwActivated(FALSE)
    /\ maxTime = 0
    /\ \E resp \in Texts : rd = [NotReading EXCEPT !.resp = resp, !.rest = resp]
    /\ gui = GuiActivated
    /\ swp = NotSweeping

\* self.ser.timeout is 0.03: read_buffer = b''
ReadStart ==
    /\ rd.pc = "idle"
    /\ rd' = [rd EXCEPT !.pc = "loop"]
    /\ UNCHANGED <<mw, gui, swp, parseVars, facadeVars, logicVars>>

\* byte_chunk = self.ser.read(size=chunk_size): the k bytes that arrive
\* before the timeout, chunk_size of them at most.  After the loop the
\* buffer is decoded and cut
ReadChunk ==
    /\ rd.pc = "loop"
    /\ \E k \in 0..ChunkSize :
         /\ k <= Len(rd.rest)
         /\ LET byte_chunk == SubSeq(rd.rest, 1, k)
                read_buffer == rd.buf \o byte_chunk
                ends == chunk_ends(byte_chunk)
            IN  rd' = [rd EXCEPT
                         !.rest = SubSeq(rd.rest, k + 1, Len(rd.rest)),
                         !.buf = read_buffer,
                         !.reads = rd.reads + 1,
                         !.pc = IF ends THEN "done" ELSE "loop",
                         !.out = IF ends THEN get_terminal_string(read_buffer)
                                 ELSE rd.out]
    /\ UNCHANGED <<mw, gui, swp, parseVars, facadeVars, logicVars>>

NextRead ==
    \/ ReadStart
    \/ ReadChunk

SpecRead == InitRead /\ [][NextRead]_vars

\* The thread that called _get_terminal_string runs on
FairSpecRead == SpecRead /\ WF_vars(ReadStart) /\ WF_vars(ReadChunk)

-----------------------------------------------------------------------------
(* SpecPublish: poll passes, and between them the slot set_laser_state     *)
(* switching the laser, so that what a pass reads differs from the last    *)

InitPublish ==
    /\ terminalString = <<>>
    /\ val = NotCalled
    /\ InitFacadeVars(TRUE)
    /\ InitLogicVars
    /\ mw = MwActivated(FALSE)
    /\ rd = NotReading
    /\ gui = GuiActivated
    /\ swp = NotSweeping
    /\ maxTime = LoopPasses

\* The slot set_laser_state(state) called between two passes
SlotBetweenPasses ==
    /\ Top.fn = "loop"
    /\ LogicSetLaserState

NextPublish ==
    \/ EndPosted
    \/ TimerFire
    \/ CheckLaserLoop
    \/ PollPass
    \/ SlotBetweenPasses

SpecPublish == InitPublish /\ [][NextPublish]_vars

-----------------------------------------------------------------------------
(* FairSpec: Spec with the logic's thread running on.  A step the thread   *)
(* can take is taken, and a pass that has begun returns: every outcome of  *)
(* a pass ends it, so weak fairness of one outcome says as much.           *)

FirstQueryRaises ==
    [g |-> get_laser_state(IoFail), w |-> get_power(IoFail),
     c |-> get_temperatures(IoFail, IoFail),
     a |-> get_autopulseStatus(IoFail), f |-> get_fineStatus(IoFail)]

Fairness ==
    /\ WF_vars(EndPosted)
    /\ WF_vars(TimerFire)
    /\ WF_vars(TimersQuiet)
    /\ WF_vars(CheckLaserLoop)
    /\ WF_vars(PollPassOn(FirstQueryRaises))
    /\ WF_vars(StartQueryLoop)
    /\ WF_vars(StopQueryLoop)

FairSpec == Spec /\ Fairness

-----------------------------------------------------------------------------
(* SpecGui: the advanced-feature widgets of TopticaLaserGUI.  One action is *)
(* one event of the GUI, its handler, and the slot calls its signals bring *)
(* about on the logic, which the logic's thread runs in the order emitted.  *)

\* The members of the enum AdvancedFeatureSelect
AdvancedFeatureSelect == {"NOAF", "SKILL1", "FINE"}

\* n & b of Python for n in {0, 1} and a bool b
BitAnd(n, b) == IF n = 1 /\ b THEN 1 ELSE 0

\* updateAdvancedFeatures: `param == 0 & checked` is param == (0 & checked),
\* & binding tighter than ==.  [connects, emit, exc]: the connections added
\* to sigFineA and to sigFineB, the member emitted with sigAdvancedFeatures,
\* and the exception raised
updateAdvancedFeatures(param, checked) ==
    IF param = BitAnd(0, checked)
    THEN [connects |-> 1, emit |-> "FINE", exc |-> "none"]
    ELSE IF param = BitAnd(1, checked)
    THEN [connects |-> 0, emit |-> "SKILL1", exc |-> "none"]
    ELSE IF "NONE" \in AdvancedFeatureSelect
    THEN [connects |-> 0, emit |-> "NONE", exc |-> "none"]
    ELSE [connects |-> 0, emit |-> "none", exc |-> "AttributeError"]

\* updateAdvancedFeatures_View: the FINE widgets are enabled for index 0
updateAdvancedFeatures_View(param) == param = 0

\* TopticaLaserLogic.set_advanced_features(mode): [sent, exc]
set_advanced_features(mode, reply) ==
    IF mode = "FINE"
    THEN LET c == communicate("fine on", reply)
         IN  [sent |-> c.sent, exc |-> c.exc]
    ELSE IF mode = "SKILL1"
    THEN LET c == communicate("skill on", reply)
         IN  [sent |-> c.sent, exc |-> c.exc]
    ELSE LET c == communicate("fine off", reply)
             d == communicate("skill off", reply)
         IN  IF c.exc # "none" THEN [sent |-> c.sent, exc |-> c.exc]
             ELSE [sent |-> c.sent \o d.sent, exc |-> d.exc]

\* TopticaLaserLogic.set_Fine_A, set_Fine_B:
\* self._communicate('fine a ' + str(value))
set_Fine(ch, value, reply) ==
    LET word == IF ch = "A" THEN "fine a " ELSE "fine b "
        c == communicate(<<word>> \o PyStrInt(value), reply)
    IN  [sent |-> c.sent, exc |-> c.exc]

\* The values the FINE spin boxes are set to, and the slider positions
FineValues == 0..MaxFine

\* The entries of the combo box setParamAF
FeatureIndexes == 0..2

\* A signal emitted with each of the values in turn, conn slots connected:
\* the slot calls in order
SlotCalls(ch, values, conn) ==
    [i \in 1..(Len(values) * conn) |->
        [ch |-> ch, value |-> values[((i - 1) \div conn) + 1]]]

\* What the slot calls write, the line answering each alike
RECURSIVE CallsWrite(_, _)
CallsWrite(calls, reply) ==
    IF calls = <<>> THEN <<>>
    ELSE set_Fine(calls[1].ch, calls[1].value, reply).sent
            \o CallsWrite(Tail(calls), reply)

InitGui ==
    /\ terminalString = <<>>
    /\ val = NotCalled
    /\ InitFacadeVars(TRUE)
    /\ InitLogicVars
    /\ mw = MwActivated(FALSE)
    /\ rd = NotReading
    /\ gui = GuiActivated
    /\ swp = NotSweeping
    /\ maxTime = 0

\* fineCheckBox.stateChanged -> updateAdvancedFeatures(), and the logic's
\* set_advanced_features for what it emits
GuiToggleFine ==
    \E reply \in OnLine(CommandReplies) :
        LET checked == ~gui.checked
            u == updateAdvancedFeatures(gui.param, checked)
            l == IF u.emit = "none" THEN [sent |-> <<>>, exc |-> "none"]
                 ELSE set_advanced_features(u.emit, reply)
        IN  /\ gui.conn + u.connects <= MaxConnections
            /\ gui' = [gui EXCEPT !.checked = checked,
                                  !.conn = @ + u.connects,
                                  !.ev = "toggle", !.exc = u.exc,
                                  !.req = u.emit, !.calls = <<>>]
            /\ sent' = l.sent
            /\ inbuf' = ReadAll(inbuf, l.sent)
            /\ ret' = IF u.emit = "none" THEN ret
                      ELSE Ret("logic.set_advanced_features", u.emit, l.exc, "None")
            /\ UNCHANGED <<mw, rd, swp, parseVars, ser, handles, devLaser,
                           serialReply, logicVars>>

\* setParamAF.currentIndexChanged -> updateAdvancedFeatures_View
GuiSelectFeature ==
    \E i \in FeatureIndexes \ {gui.param} :
        /\ gui' = [gui EXCEPT !.param = i,
                              !.enabled = updateAdvancedFeatures_View(i),
                              !.ev = "index", !.exc = "none",
                              !.req = "none", !.calls = <<>>]
        /\ UNCHANGED <<mw, rd, swp, parseVars, facadeVars, logicVars>>

\* The user sets the spin box setValueFineA or setValueFineB to v:
\* updateFromSpinBox_Fine* moves the slider to v*10, whose valueChanged, sent
\* when the position changes, runs updateFromSlider_Fine*: that sets the spin
\* box to the value it has and emits the signal; then the spin box handler
\* emits it
GuiSpinFine ==
    \E ch \in {"A", "B"}, v \in FineValues, reply \in OnLine(CommandReplies) :
        LET values == IF gui.slider[ch] # v * 10 THEN <<v, v>> ELSE <<v>>
            calls == SlotCalls(ch, values, gui.conn)
        IN  /\ gui.enabled
            /\ gui.spin[ch] # v
            /\ gui' = [gui EXCEPT !.spin[ch] = v, !.slider[ch] = v * 10,
                                  !.ev = "fine", !.exc = "none",
                                  !.req = "none", !.calls = calls]
            /\ sent' = CallsWrite(calls, reply)
            /\ inbuf' = ReadAll(inbuf, CallsWrite(calls, reply))
            /\ ret' = IF calls = <<>> THEN ret
                      ELSE Ret("logic.set_Fine", ch,
                               set_Fine(ch, v, reply).exc, "None")
            /\ UNCHANGED <<mw, rd, swp, parseVars, ser, handles, devLaser,
                           serialReply, logicVars>>

\* The user moves the slider horizontalSliderFineA or horizontalSliderFineB
\* to the position of the value v: updateFromSlider_Fine* sets the spin box
\* to v, whose valueChanged, sent when the value changes, runs
\* updateFromSpinBox_Fine*: that leaves the slider where it is and emits the
\* signal; then the slider handler emits it
GuiSlideFine ==
    \E ch \in {"A", "B"}, v \in FineValues, reply \in OnLine(CommandReplies) :
        LET values == IF gui.spin[ch] # v THEN <<v, v>> ELSE <<v>>
            calls == SlotCalls(ch, values, gui.conn)
        IN  /\ gui.enabled
            /\ gui.slider[ch] # v * 10
            /\ gui' = [gui EXCEPT !.spin[ch] = v, !.slider[ch] = v * 10,
                                  !.ev = "fine", !.exc = "none",
                                  !.req = "none", !.calls = calls]
            /\ sent' = CallsWrite(calls, reply)
            /\ inbuf' = ReadAll(inbuf, CallsWrite(calls, reply))
            /\ ret' = IF calls = <<>> THEN ret
                      ELSE Ret("logic.set_Fine", ch,
                               set_Fine(ch, v, reply).exc, "None")
            /\ UNCHANGED <<mw, rd, swp, parseVars, ser, handles, devLaser,
                           serialReply, logicVars>>

NextGui ==
    \/ GuiToggleFine
    \/ GuiSelectFeature
    \/ GuiSpinFine
    \/ GuiSlideFine

SpecGui == InitGui /\ [][NextGui]_vars

-----------------------------------------------------------------------------
(* SpecSweep: one call of MicrowaveRSSGS.set_sweep, the while loop taken    *)
(* one iteration at a time.  Frequencies are whole numbers of one unit.     *)

\* start and stop, and the steps: negative, zero and positive
Frequencies == 0..MaxFreq

Steps == (0 - 1)..MaxFreq

\* The entries of sweep_list the model keeps: more than any list that ends
MaxList == MaxFreq + 2

\* while self.sweep_freq <= stop
sweep_goes_on(w) == w.sweep_freq <= w.stop

InitSweep ==
    /\ terminalString = <<>>
    /\ val = NotCalled
    /\ InitFacadeVars(FALSE)
    /\ InitLogicVars
    /\ mw = MwActivated(FALSE)
    /\ rd = NotReading
    /\ gui = GuiActivated
    /\ swp = NotSweeping
    /\ maxTime = 0

\* set_sweep(start, stop, step, power): self.sweep_list = [];
\* self.sweep_freq = start
SweepCall ==
    \E start \in Frequencies, stop \in Frequencies, step \in Steps :
        /\ swp.pc = "idle"
        /\ swp' = [pc |-> "loop", start |-> start, stop |-> stop, step |-> step,
                   sweep_freq |-> start, sweep_list |-> <<>>, beyond |-> 0,
                   val |-> "None"]
        /\ UNCHANGED <<mw, rd, gui, parseVars, facadeVars, logicVars>>

\* One iteration: self.sweep_list.append(self.sweep_freq);
\* self.sweep_freq = self.sweep_freq + step.  The first MaxList entries are
\* kept; a loop that goes on after them is one that does not end (its step
\* is not positive), and of its further iterations beyond holds the parity
SweepAppend ==
    /\ swp.pc = "loop"
    /\ sweep_goes_on(swp)
    /\ swp' = IF Len(swp.sweep_list) < MaxList
              THEN [swp EXCEPT !.sweep_list = Append(@, swp.sweep_freq),
                               !.sweep_freq = @ + swp.step]
              ELSE [swp EXCEPT !.beyond = 1 - @]
    /\ UNCHANGED <<mw, rd, gui, parseVars, facadeVars, logicVars>>

\* The loop has ended: the two writes to the device, and the return value
SweepReturn ==
    \E wr \in 0..2 :
        /\ swp.pc = "loop"
        /\ ~sweep_goes_on(swp)
        /\ swp' = [swp EXCEPT
                     !.pc = "done",
                     !.val = set_sweep(mw, Len(swp.sweep_list), wr).val]
        /\ UNCHANGED <<mw, rd, gui, parseVars, facadeVars, logicVars>>

NextSweep ==
    \/ SweepCall
    \/ SweepAppend
    \/ SweepReturn

SpecSweep == InitSweep /\ [][NextSweep]_vars

\* The thread that called set_sweep runs on
FairSpecSweep ==
    SpecSweep /\ WF_vars(SweepCall) /\ WF_vars(SweepAppend) /\ WF_vars(SweepReturn)

-----------------------------------------------------------------------------
(* The poll loop: properties *)

Count(seq, x) == Cardinality({k \in 1..Len(seq) : seq[k] = x})

Frames(fn) == Cardinality({k \in 1..Len(stack) : stack[k].fn = fn})

\* A poll pass returns in this step
PassEnds == Top.fn = "pass" /\ stack' = Pop

\* check_laser_loop is called in this step
LoopCalled ==
    /\ Delivering
    /\ queue # <<>> /\ Head(queue) = "timeout"
    /\ queue' = Tail(queue)

\* The calls of check_laser_loop made so far
Invocations == now - Count(queue, "timeout")

\* C1: a poll pass in which a query raises leaves every buffer of data as it
\* was before the pass, and leaves the timer armed with 3000 ms.
C1_FailedPassKeepsBuffers ==
    [][PassEnds /\ ~lastCall'.ok
         => /\ data' = data
            /\ queryTimer' = [active |-> TRUE, interval |-> ThrottledInterval]]_vars

\* A failed pass has returned after a pass that stored samples
C1_Witness ==
    /\ lastCall.kind = "pass" /\ ~lastCall.ok
    /\ Len(hist) >= 1
    /\ Top.fn = "loop"
    /\ queryTimer.interval = ThrottledInterval

\* C2: after bufferLength or more successful passes in a row, the power,
\* time and temperature buffers hold the samples of the last bufferLength
\* passes, oldest first, and have bufferLength entries each.
C2_RingHoldsLastSamples ==
    consec >= bufferLength =>
        \A b \in {"power", "time", "base", "diode"} :
            /\ Len(data[b]) = bufferLength
            /\ \A k \in 1..bufferLength :
                   data[b][k] = hist[Len(hist) - bufferLength + k][b]

\* More passes than a buffer is long have succeeded in a row, so samples
\* have been shifted out
C2_Witness ==
    /\ consec > bufferLength
    /\ Len(hist) > bufferLength
    /\ data.time[1] # hist[1].time

\* C3: check_laser_loop called with stopRequest set writes nothing to the
\* device, changes no buffer, does not start the timer, clears stopRequest
\* and leaves the loop idle; no pass is begun.
C3_StopBranch ==
    [][LoopCalled /\ stopRequest
         => /\ sent' = <<>>
            /\ data' = data
            /\ queryTimer' = queryTimer
            /\ ~stopRequest'
            /\ module_state' = "idle"
            /\ stack' = stack]_vars

\* The stop branch was taken while the loop was running
C3_Witness ==
    /\ lastCall.kind = "stopped"
    /\ ~stopRequest
    /\ module_state = "idle"
    /\ ~queryTimer.active
    /\ Len(hist) >= 1

\* C4: every pass begun with stopRequest clear, whether its queries succeed
\* or raise, starts the timer exactly once and emits sigUpdate exactly once
\* before it returns, and while timer expirations remain an armed timer
\* leads to another call of check_laser_loop.
C4_PassRearmsAndEmits ==
    /\ [][PassEnds
            => /\ Len(lastCall'.starts) = 1
               /\ lastCall'.emits = 1
               /\ queryTimer' = [active |-> TRUE,
                                 interval |-> lastCall'.starts[1]]]_vars
    /\ \A n \in 0..(LoopPasses - 1) :
           (queryTimer.active /\ now = n) ~> (Invocations > n)

\* A pass that raised was followed by another pass
C4_Witness ==
    /\ lastCall.kind = "pass"
    /\ consec = 1
    /\ Len(hist) = 1
    /\ Invocations = 2
    /\ queryTimer.active

StopCalled ==
    /\ Delivering
    /\ queue # <<>> /\ Head(queue) = "stop"
    /\ queue' = Tail(queue)

\* start_query_loop is called in this step
StartCalled ==
    /\ Delivering
    /\ queue # <<>> /\ Head(queue) = "start"
    /\ queue' = Tail(queue)

\* stop_query_loop returns in this step
StopReturns == Top.fn = "stop" /\ stack' = Pop

\* C6: stop_query_loop sets stopRequest and always returns: at the first
\* test that finds the flag cleared, otherwise when its tenth wait is over;
\* it never waits more than ten times, and the flag is cleared by
\* check_laser_loop alone, never by stop_query_loop.
C6_StopSetsFlagAndReturns ==
    /\ [](\A k \in 1..Len(stack) :
             stack[k].fn = "stop" => stack[k].i \in 0..(StopIterations - 1))
    /\ [][/\ StopCalled
             => stopRequest' /\ stack' = Append(stack, Frame("stop", 0, "posted"))
          /\ StopReturns
             => /\ stopRequest' = stopRequest
                /\ ~stopRequest \/ Top.i = StopIterations - 1
          /\ (Top.fn = "stop" /\ Top.at = "timers" /\ stack' # stack)
             => IF ~stopRequest \/ Top.i = StopIterations - 1
                THEN stack' = Pop
                ELSE stack' = SetTop(Frame("stop", Top.i + 1, "posted"))
          /\ (stopRequest /\ ~stopRequest') => LoopCalled]_vars
    /\ \A d \in 2..(MaxPosts + 1) :
           (Len(stack) >= d /\ stack[d].fn = "stop") ~> (Len(stack) < d)

\* stop_query_loop has returned from its tenth wait, the flag still set
C6_Witness ==
    /\ stopRequest
    /\ Frames("stop") = 0
    /\ Top.fn = "loop"
    /\ posts >= 1

\* C7: start_query_loop, called with the loop idle or running, leaves the
\* loop running and the one timer armed for queryInterval milliseconds.
C7_StartArmsTimer ==
    [][StartCalled
         => /\ module_state' = "running"
            /\ queryTimer' = [active |-> TRUE, interval |-> queryInterval]]_vars

\* start_query_loop has started a loop that a stop request had made idle
C7_Witness ==
    /\ module_state = "running"
    /\ lastCall.kind = "stopped"
    /\ queryTimer = [active |-> TRUE, interval |-> queryInterval]
    /\ ~stopRequest

-----------------------------------------------------------------------------
(* The parser: properties *)

\* 'key = value unit': the one '=' has a space on either side of it, and a
\* key before and a value after
KeyValueForm(s) ==
    LET eq == PyFind(s, "=", 0)
    IN  /\ eq >= 2
        /\ \A k \in 1..Len(s) : s[k] = "=" => k = eq + 1
        /\ s[eq] = " " /\ s[1] # " "
        /\ Len(s) >= eq + 3
        /\ s[eq + 2] = " " /\ s[eq + 3] # " "

\* The text between '= ' and the next space, or the end of the text
ValueToken(s) ==
    LET from == PyFind(s, "=", 0) + 2
        sp == PyFind(s, " ", from)
    IN  PySlice(s, from, IF sp = -1 THEN Len(s) ELSE sp)

\* C8: for a text 'key = value unit' _getValue returns the text between
\* '= ' and the next space or the end of the text, and for a text without
\* '=' it returns 404.
C8_GetValueReturnsToken ==
    val # NotCalled =>
        IF ~PyContains(terminalString, <<"=">>)
        THEN val = IntVal(NotAvailable)
        ELSE KeyValueForm(terminalString)
                => val = StrVal(ValueToken(terminalString))

-----------------------------------------------------------------------------
(* The facade: properties *)

\* The commands the device receives from the writes: a command ends with
\* b'\r\n'
RECURSIVE Received(_, _)
Received(partial, lines) ==
    IF lines = <<>> THEN <<>>
    ELSE LET cmd == partial \o <<lines[1].text>>
         IN  IF lines[1].crlf THEN <<cmd>> \o Received(<<>>, Tail(lines))
             ELSE Received(cmd, Tail(lines))

\* The laser state was set to ON and the call returned
SetOnReturned ==
    /\ ret.op \in {"set_laser_state", "logic.set_laser_state"}
    /\ ret.arg = "ON"
    /\ ret.exc = "none"

\* The state at the time of the call: the facade has the device's, the
\* logic its laser_state
StateAtCall == IF ret.op = "set_laser_state" THEN ret.dev ELSE ret.cached

\* C9: setting the laser state to ON while the state is OFF sends one
\* 'la on' command and then one 'sta la' query; setting it to ON while the
\* state is ON sends nothing.
C9_SetOnSendsOnce ==
    SetOnReturned =>
        IF StateAtCall = "OFF"
        THEN Received(<<>>, sent) = << <<"la on">>, <<"sta la">> >>
        ELSE sent = <<>>

IBEAM == <<"i", "B", "E", "A", "M">>

\* connect_laser was called and the device's reply was read and decoded
IdentityRead ==
    /\ ret.op = "connect_laser"
    /\ sent # <<>>
    /\ ret.exc \notin {"SerialException", "UnicodeDecodeError"}

\* C10 as claimed: connect_laser succeeds when the reply to 'serial'
\* contains 'iBEAM', and raises ConnectionError when it does not.
C10_RejectsWithConnectionError ==
    IdentityRead =>
        IF PyContains(serialReply, IBEAM)
        THEN ret.val = "True" /\ ret.exc = "none"
        ELSE ret.exc = "ConnectionError"

\* C10: connect_laser returns True when the reply to 'serial', decoded and
\* less its last five characters, contains 'iBEAM', and returns False when
\* it does not or when the port does not open; it never raises
\* ConnectionError: a failed write or a reply that does not decode leaves
\* it as the exception raised there.
C10_ReturnsFalseOnMismatch ==
    ret.op = "connect_laser" =>
        /\ ret.exc \in {"none", "SerialException", "UnicodeDecodeError"}
        /\ ret.exc # "none" => ret.val = "None"
        /\ (ret.exc = "none" /\ sent = <<>>) => ret.val = "False"
        /\ (ret.exc = "none" /\ sent # <<>>)
              => /\ sent = <<Line("serial", TRUE)>>
                 /\ ret.val = IF PyContains(serialReply, IBEAM)
                              THEN "True" ELSE "False"

\* A device that is no iBEAM has answered and connect_laser returned False
C10_Witness ==
    /\ ret.op = "connect_laser"
    /\ sent # <<>>
    /\ ret.exc = "none"
    /\ ret.val = "False"
    /\ serialReply # <<>>
    /\ ser.is_open

\* C11: whatever the order of on_activate, on_deactivate, connect_laser and
\* disconnect_laser, the instance holds at most one port open, the one its
\* Serial object says is open, and none once on_deactivate has returned.
C11_OneConnection ==
    /\ handles = IF ser.is_open THEN 1 ELSE 0
    /\ ret.op = "on_deactivate" => handles = 0

\* on_deactivate has returned on an instance that was connected to another
\* port than the configured one
C11_Witness ==
    /\ ret.op = "on_deactivate"
    /\ ret.arg = "open"
    /\ ser.port = "COM4"
    /\ ~ser.is_open

\* C12: every write a facade operation makes to the serial connection is a
\* whole command line ended by '\r\n'.
C12_EveryWriteEndsLine == \A k \in 1..Len(sent) : sent[k].crlf

\* A getter has read and decoded a reply, or tried to
GetterRead ==
    /\ ret.op \in {"get_power", "get_temperatures", "get_laser_state"}
    /\ sent # <<>>

\* C13: reading and decoding a reply never raises, whatever the bytes read
\* (bytes that are no UTF-8, an empty read, a text that holds no number):
\* the getter returns.
C13_DecodingNeverRaises == GetterRead => ret.exc = "none"

\* C14: when the reply to a power or temperature query holds no '=',
\* get_power and get_temperatures return no number made from the 404 of
\* _getValue, and no buffer of a poll pass holds such a number.
C14_SentinelIsNotANumber ==
    /\ (/\ ret.op \in {"get_power", "get_temperatures"}
        /\ sent # <<>>
        /\ val = IntVal(NotAvailable))
       => ret.val = "None"
    /\ \A b \in {"power", "base", "diode"} : \A k \in 1..Len(data[b]) :
           data[b][k].num # NotAvailable

-----------------------------------------------------------------------------
(* What a pass publishes: properties *)

\* A poll pass in which a query raised returns in this step
FailedPassEnds == PassEnds /\ ~lastCall'.ok

\* C15 as claimed: a pass that fails leaves laser_state, laser_power,
\* laser_temps and the autopulse and FINE status as the last successful
\* pass left them.
C15_FailedPassKeepsPublished ==
    [][(FailedPassEnds /\ lastCall.kind = "pass" /\ lastCall.ok)
         => pub' = pub]_vars

\* C15: a pass that fails leaves unchanged the attributes of the query that
\* raised and of the queries after it; the attributes of the queries that
\* returned before it hold what this pass read.
C15_FailedPassKeepsUnreadPublished ==
    [][FailedPassEnds
         => LET k == lastCall'.failAt
            IN  /\ k \in 1..5
                /\ pub'.laser_state = IF k > 1 THEN devLaser ELSE pub.laser_state
                /\ IF k > 2
                   THEN pub'.laser_power \in {Float(7, 1000), Float(NotAvailable, 1000)}
                   ELSE pub'.laser_power = pub.laser_power
                /\ IF k > 3
                   THEN pub'.base = Float(21, 1) /\ pub'.diode = Float(25, 1)
                   ELSE pub'.base = pub.base /\ pub'.diode = pub.diode
                /\ IF k > 4
                   THEN pub'.autopulseInfo = TextOFF
                   ELSE pub'.autopulseInfo = pub.autopulseInfo
                /\ pub'.fineInfo = pub.fineInfo]_vars

\* A pass has failed in get_temperatures after the laser was switched, and
\* publishes the new laser state
C15_Witness ==
    /\ lastCall.kind = "pass"
    /\ lastCall.failAt = 3
    /\ Len(hist) >= 1
    /\ hist # <<>> /\ ret.op = "logic.set_laser_state"
    /\ pub.laser_state = devLaser
    /\ devLaser # ret.dev

-----------------------------------------------------------------------------
(* The commands of the facade: properties *)

\* The operations the iBeam smart does not support
Unsupported ==
    {"get_current_unit", "get_current_range", "get_current_setpoint",
     "set_current", "get_shutter_state", "set_shutter_state",
     "set_temperatures", "get_temperature_setpoints"}

\* C16: every unsupported operation returns -1 and raises nothing.
C16_UnsupportedReturnsMinusOne ==
    ret.op \in Unsupported => ret.exc = "none" /\ ret.val = "-1"

RECURSIVE Pow10(_)
Pow10(k) == IF k = 0 THEN 1 ELSE 10 * Pow10(k - 1)

\* The position of ch in s, 0 when it is not there
IndexOf(s, ch) ==
    IF \E k \in 1..Len(s) : s[k] = ch
    THEN CHOOSE k \in 1..Len(s) : s[k] = ch /\ \A j \in 1..(k - 1) : s[j] # ch
    ELSE 0

\* The number a decimal text stands for ('0.5', '2e-05', '1.0'), in
\* millionths; -1 when it is no whole number of millionths
Millionths(t) ==
    LET ePos == IndexOf(t, "e")
        mant == IF ePos = 0 THEN t ELSE SubSeq(t, 1, ePos - 1)
        expo == IF ePos = 0 THEN 0
                ELSE IF t[ePos + 1] = "-"
                THEN 0 - DecimalVal(SubSeq(t, ePos + 2, Len(t)))
                ELSE DecimalVal(SubSeq(t, ePos + 2, Len(t)))
        dot == IndexOf(mant, ".")
        whole == IF dot = 0 THEN mant ELSE SubSeq(mant, 1, dot - 1)
        frac == IF dot = 0 THEN <<>> ELSE SubSeq(mant, dot + 1, Len(mant))
        m == DecimalVal(whole \o frac)
        k == 6 + expo - Len(frac)
    IN  IF k >= 0 THEN m * Pow10(k)
        ELSE IF m % Pow10(0 - k) = 0 THEN m \div Pow10(0 - k) ELSE -1

\* The one line the last call wrote is the word, then the text of a number
\* that is the argument in seconds
SentInSeconds(word) ==
    /\ Len(sent) = 1
    /\ sent[1].crlf
    /\ sent[1].text[1] = word
    /\ Millionths(Tail(sent[1].text)) = ret.f.num

\* C17: set_autopulse_per(p) transmits 'puls period ' and p/1e6, 'puls period
\* 0.5' for p = 500000; set_autopulse_width(w) transmits 'puls width ' and
\* w/1e6.
C17_AutopulseInSeconds ==
    /\ (ret.op = "set_autopulse_per" /\ sent # <<>>)
         => /\ SentInSeconds("puls period ")
            /\ ret.f.num = 500000
                 => sent[1].text = <<"puls period ", "0", ".", "5">>
    /\ (ret.op = "set_autopulse_width" /\ sent # <<>>)
         => SentInSeconds("puls width ")

\* set_autopulse_per(500000) has written its line and returned
C17_Witness ==
    /\ ret.op = "set_autopulse_per"
    /\ ret.f.num = 500000
    /\ ret.exc = "none"
    /\ sent # <<>>

-----------------------------------------------------------------------------
(* The microwave source: properties *)

\* One of cw_on, list_on, sweep_on, off returns -1 in this step
SwitchFails ==
    /\ mw' # mw
    /\ mw'.op \in {"cw_on", "list_on", "sweep_on", "off"}
    /\ mw'.val = "-1"

\* C18: cw_on, list_on, sweep_on and off return 0 or -1, and when one
\* returns -1 the is_running flag and the mode are as they were.
C18_FailedSwitchKeepsStatus ==
    [][/\ mw'.op \in {"cw_on", "list_on", "sweep_on", "off"}
            => mw'.val \in {"0", "-1"}
       /\ SwitchFails
            => mw'.is_running = mw.is_running /\ mw'.mode = mw.mode]_vars

\* C19: every operation that writes a command has read its response when it
\* returns: between two operations no response waits unread in the port, so
\* what an operation reads is the response to what it wrote.
C19_NoResponseLeftUnread == inbuf = <<>>

-----------------------------------------------------------------------------
(* The serial line under the logic's thread: properties *)

\* The frames of poll passes that wrote a query and have not read its
\* response
Awaiting == {k \in 1..Len(stack) : stack[k].fn = "pass" /\ stack[k].at = "written"}

\* C20: while a poll pass has written a query and not yet read the response,
\* the thread runs nothing else and the last command on the line is that
\* query: no setter slot and no other pass wrote in between.
C20_QueryNotInterleaved ==
    \A k \in Awaiting :
        /\ k = Len(stack)
        /\ Awaiting = {k}
        /\ inbuf # <<>>
        /\ inbuf[Len(inbuf)] = PassLines[stack[k].i + 1].text
        /\ sent = <<PassLines[stack[k].i + 1]>>

\* A pass waits for the response to 'sh pow' while the call of a setter
\* slot is queued and stop_query_loop was asked for
C20_Witness ==
    /\ Awaiting # {}
    /\ Top.i = 1
    /\ \E k \in 1..Len(queue) : queue[k] \in Setters
    /\ \E k \in 1..Len(queue) : queue[k] = "stop"

-----------------------------------------------------------------------------
(* _get_terminal_string: properties *)

\* What was read and what is left are the response, in order; while the
\* loop runs every chunk was full, and it ended at the first chunk that
\* was not
ReadLoopShape ==
    /\ rd.buf \o rd.rest = rd.resp
    /\ rd.pc = "loop" => Len(rd.buf) = rd.reads * ChunkSize
    /\ rd.pc = "done" => /\ rd.reads >= 1
                         /\ Len(rd.buf) >= (rd.reads - 1) * ChunkSize
                         /\ Len(rd.buf) < rd.reads * ChunkSize
    /\ rd.reads <= (Len(rd.resp) \div ChunkSize) + 1

\* C21: the read loop ends exactly at the first chunk shorter than
\* chunk_size, an empty one included, with all chunks read concatenated in
\* order, and it ends for every finite response.
C21_ReadLoopEndsAtShortChunk == []ReadLoopShape /\ <>(rd.pc = "done")

\* A response of twice chunk_size was read in two full chunks and an empty
\* one
C21_Witness ==
    /\ rd.pc = "done"
    /\ Len(rd.resp) = 2 * ChunkSize
    /\ rd.buf = rd.resp
    /\ rd.reads = 3

\* C22: _get_terminal_string returns the decoded text without its last five
\* characters, and the empty string for a response of five characters or
\* fewer.
C22_SuffixRemoved ==
    (rd.pc = "done" /\ rd.out.exc = "none")
        => rd.out.s = IF Len(rd.buf) <= SuffixLen THEN <<>>
                      ELSE SubSeq(rd.buf, 1, Len(rd.buf) - SuffixLen)

-----------------------------------------------------------------------------
(* The interval of the timer: properties *)

\* C23: the timer a successful pass arms has queryInterval, whatever the
\* passes before it did; only the timer a failed pass arms has the 3000 ms
\* fallback.
C23_FallbackOnlyAfterFailedPass ==
    /\ (queryTimer.active /\ lastCall.kind = "pass")
         => queryTimer.interval = IF lastCall.ok THEN queryInterval
                                  ELSE ThrottledInterval
    /\ queryTimer.interval = ThrottledInterval
         => lastCall.kind = "pass" /\ ~lastCall.ok

\* A successful pass has armed the timer after an earlier pass had failed
C23_Witness ==
    /\ lastCall.kind = "pass" /\ lastCall.ok
    /\ queryTimer.active /\ queryTimer.interval = queryInterval
    /\ Len(hist) < now

-----------------------------------------------------------------------------
(* Starting and stopping the loop: properties *)

\* C24: a start_query_loop is followed by a poll pass that queries the
\* device: the call of check_laser_loop that the timer it armed brings about
\* does not return at the test of a stopRequest left by an earlier
\* stop_query_loop.
C24_StartIsNotSwallowed == ~(lastCall.kind = "stopped" /\ lastCall.started)

\* C25: once stop_query_loop has set stopRequest while the timer was armed,
\* and start_query_loop is not called again, no poll pass queries the
\* device any more.
C25_NoPassAfterStop == [][lastCall.stopping => ~PassEnds]_vars

\* C26: whenever connect_laser reports failure by returning False, because
\* the port could not be opened or the identity check failed, the serial
\* port is not left open.
C26_FailureLeavesPortClosed ==
    (ret.op = "connect_laser" /\ ret.exc = "none" /\ ret.val = "False")
        => ~ser.is_open

\* The command text is among the lines written by the last call
Wrote(lines, text) == \E i \in 1..Len(lines) : lines[i].text = text

\* C27: when the logic has processed the set_laser_state(False) that the
\* GUI's on_deactivate emits, 'la off' is the last laser on/off command sent,
\* also when the 'la on' before it was sent after the most recent poll pass,
\* the cached laser_state being OFF still.
C27_DeactivateSendsLaOff ==
    [][(/\ ret.op = "logic.set_laser_state" /\ ret.arg = "ON"
        /\ Wrote(sent, "la on")
        /\ ret'.op = "logic.set_laser_state" /\ ret'.arg = "OFF"
        /\ ret'.exc = "none")
       => Wrote(sent', "la off")]_vars

\* C28: a change of the FINE A or FINE B value in the GUI results in exactly
\* one set_Fine_A or set_Fine_B call on the logic, and so in exactly one
\* 'fine a <v>' or 'fine b <v>' command, however often the fine checkbox
\* was toggled before.
C28_OneCallPerFineChange ==
    gui.ev = "fine" =>
        /\ Len(gui.calls) = 1
        /\ Len(sent) <= 1
        /\ \A i \in 1..Len(sent) :
              sent[i] = Line(<<IF gui.calls[1].ch = "A" THEN "fine a "
                               ELSE "fine b ">>
                             \o PyStrInt(gui.calls[1].value), TRUE)

\* C29: updateAdvancedFeatures requests FINE only with index 0 selected and
\* the fine checkbox checked, SKILL1 only with index 1 and the checkbox
\* checked, and in every other case that no advanced feature be active,
\* which leads to 'fine off' and 'skill off'.
C29_FeatureRequestedByIndexAndBox ==
    gui.ev = "toggle" =>
        /\ gui.exc = "none"
        /\ gui.req = IF gui.param = 0 /\ gui.checked THEN "FINE"
                     ELSE IF gui.param = 1 /\ gui.checked THEN "SKILL1"
                     ELSE "NOAF"
        /\ (gui.req = "NOAF" /\ ret.exc = "none")
              => /\ Wrote(sent, "fine off")
                 /\ Wrote(sent, "skill off")

\* set_sweep has returned 0 with the list from start in steps of step up to
\* the largest such value that does not exceed stop
SweepListExact ==
    (swp.pc = "done" /\ swp.val = "0") =>
        /\ swp.sweep_list # <<>>
        /\ \A i \in 1..Len(swp.sweep_list) :
              swp.sweep_list[i] = swp.start + (i - 1) * swp.step
        /\ swp.sweep_list[Len(swp.sweep_list)] <= swp.stop
        /\ swp.sweep_list[Len(swp.sweep_list)] + swp.step > swp.stop

\* C30: set_sweep terminates for every start, stop and step, and when it
\* has returned 0 sweep_list is start, start+step, start+2*step, ... up to
\* the largest such value not exceeding stop.
C30_SetSweepTerminates == []SweepListExact /\ <>(swp.pc = "done")

=============================================================================
